---------------------------- MODULE Spec2Model ----------------------------
(***************************************************************************)
(* Model of the AI research assistant: the WebSearchTool (offline lookup,  *)
(* live search with retry, rate-limit fallback), the SearchAgent (query    *)
(* planning, search-and-gather with deduplication by url) and the          *)
(* AIResearchAssistant.research pipeline.                                  *)
(*                                                                         *)
(* Python strings on which the code computes (queries, topics, keys of the *)
(* offline table, error messages, model completions) are sequences of      *)
(* one-character strings, so that lower(), split(), strip() and the `in`   *)
(* substring test are computed and not assumed.  Text the code only        *)
(* carries around (title, url, snippet of a result) is a TLA+ string.      *)
(***************************************************************************)
EXTENDS Integers, Sequences, FiniteSets, TLC

VARIABLES
    \* Config (src/config.py), fixed for the process lifetime
    DEMO_MODE, USE_FALLBACK_ON_ERROR, NUM_SEARCH_QUERIES,
    \* WebSearchTool instance
    max_results, use_demo,
    \* the search call in progress: where it stands and the attempt index of
    \* its retry loop
    spc, attempt,
    \* history of the provider: the current or last search call, whether some
    \* call has had all its attempts rate-limited, and the number of direct calls
    last, exhausted, ncalls,
    \* the offline-branch calls that have returned, as triples <<query,
    \* results, k>>: k is 1 for the first such call with the query and 2 for
    \* every later one
    seen,
    \* the last call of SearchAgent.generate_search_queries
    plan,
    \* SearchAgent.search_and_gather: where the call stands, its queries, the
    \* index of the next query to search, the results gathered so far, and the
    \* number of search calls it has made
    gpc, queries, qi, all_results, searchCalls,
    \* AIResearchAssistant.research: the pipeline state, the topic, what the
    \* stages returned, the report path returned and the error raised to the
    \* caller
    state, topic, search_data, analysis_data, report_path, error,
    \* the last direct call of AnalyzerAgent._synthesize_insights and the last
    \* direct call of a TextProcessor function
    syn, tp,
    \* history of the run: its number, the stages invoked in order, and the
    \* error a stage raised
    run, stages, thrown

configVars == <<DEMO_MODE, USE_FALLBACK_ON_ERROR, NUM_SEARCH_QUERIES>>
toolVars == <<max_results, use_demo, spc, attempt, last, exhausted, seen>>
plannerVars == <<plan>>
analyzerVars == <<syn, tp>>
gatherVars == <<gpc, queries, qi, all_results, searchCalls>>
pipeVars == <<state, topic, search_data, analysis_data, report_path, error, run, stages, thrown>>
vars == <<configVars, toolVars, ncalls, plannerVars, analyzerVars, gatherVars, pipeVars>>

-----------------------------------------------------------------------------
(* Bounds of the model *)

\* max_results is drawn from 0..MaxResultsCfg
MaxResultsCfg == 2
\* the live backend returns 0..MaxBackendLen raw results
MaxBackendLen == 2
\* number of direct search calls on one provider
MaxCalls == 3
\* num_queries is drawn from 0..MaxCount
MaxCount == 4
\* the merged list handed to the deduplication has at most MaxDedupLen entries
MaxDedupLen == 4
\* number of research runs on one assistant
MaxRuns == 2
\* the call depth at which the interpreter raises RecursionError
RecursionLimit == 2
\* a text given to the TextProcessor is made of at most MaxTextPieces pieces
MaxTextPieces == 3
\* top_n and max_points are drawn from 0..MaxTopN
MaxTopN == 2
\* the results list given to _synthesize_insights has at most MaxSynthLen entries
MaxSynthLen == 2

-----------------------------------------------------------------------------
(* Python string operations on sequences of characters *)

Min(a, b) == IF a <= b THEN a ELSE b
Max(a, b) == IF a >= b THEN a ELSE b

\* s[:n]
Take(s, n) ==
    IF n >= 0 THEN SubSeq(s, 1, Min(n, Len(s)))
    ELSE SubSeq(s, 1, Max(0, Len(s) + n))

UpperToLower ==
    ("A" :> "a") @@ ("B" :> "b") @@ ("C" :> "c") @@ ("D" :> "d") @@ ("E" :> "e")
    @@ ("F" :> "f") @@ ("G" :> "g") @@ ("H" :> "h") @@ ("I" :> "i") @@ ("J" :> "j")
    @@ ("K" :> "k") @@ ("L" :> "l") @@ ("M" :> "m") @@ ("N" :> "n") @@ ("O" :> "o")
    @@ ("P" :> "p") @@ ("Q" :> "q") @@ ("R" :> "r") @@ ("S" :> "s") @@ ("T" :> "t")
    @@ ("U" :> "u") @@ ("V" :> "v") @@ ("W" :> "w") @@ ("X" :> "x") @@ ("Y" :> "y")
    @@ ("Z" :> "z")

\* str.lower()
Lower(s) ==
    [i \in 1..Len(s) |-> IF s[i] \in DOMAIN UpperToLower THEN UpperToLower[s[i]] ELSE s[i]]

\* sub in s
Contains(s, sub) ==
    \E i \in 0..(Len(s) - Len(sub)) : SubSeq(s, i + 1, i + Len(sub)) = sub

Whitespace == {" ", "\t", "\n", "\r"}

\* str.strip()
RECURSIVE LStrip(_)
LStrip(s) ==
    IF s # <<>> /\ Head(s) \in Whitespace THEN LStrip(Tail(s)) ELSE s

RECURSIVE RStrip(_)
RStrip(s) ==
    IF s # <<>> /\ s[Len(s)] \in Whitespace THEN RStrip(SubSeq(s, 1, Len(s) - 1)) ELSE s

Strip(s) == RStrip(LStrip(s))

\* the elements of the sequence of tuples ts that are not the empty tuple
NonEmptyOnes(ts) ==
    LET NonEmpty(x) == x # <<>> IN SelectSeq(ts, NonEmpty)

\* str.split(sep) for a one-character sep: the pieces between separators,
\* empty pieces kept; cur is what precedes s in the first piece.  A piece
\* starts at the start of s and after each separator and runs up to the next
\* separator.
SplitOn(s, sep, cur) ==
    LET NextSep(i) ==
            CHOOSE j \in i..(Len(s) + 1) :
                /\ j = Len(s) + 1 \/ s[j] = sep
                /\ \A k \in i..(j - 1) : s[k] # sep
        pieceAt == [i \in 1..(Len(s) + 1) |->
                       IF i = 1 \/ s[i - 1] = sep
                       THEN << SubSeq(s, i, NextSep(i) - 1) >>
                       ELSE <<>>]
        pieces == NonEmptyOnes(pieceAt)
    IN  [k \in 1..Len(pieces) |-> IF k = 1 THEN cur \o pieces[k][1] ELSE pieces[k][1]]

\* str.split(): the maximal runs of non-whitespace characters
RECURSIVE SplitWords(_, _)
SplitWords(s, cur) ==
    IF s = <<>> THEN (IF cur = <<>> THEN <<>> ELSE <<cur>>)
    ELSE IF Head(s) \in Whitespace
         THEN (IF cur = <<>> THEN <<>> ELSE <<cur>>) \o SplitWords(Tail(s), <<>>)
         ELSE SplitWords(Tail(s), Append(cur, Head(s)))

Range(s) == {s[i] : i \in 1..Len(s)}

-----------------------------------------------------------------------------
(* tools/demo_data.py: the static offline table *)

\* "artificial intelligence in healthcare"
KeyAIHealthcare ==
    <<"a", "r", "t", "i", "f", "i", "c", "i", "a", "l", " ", "i", "n", "t",
    "e", "l", "l", "i", "g", "e", "n", "c", "e", " ", "i", "n", " ", "h", "e", "a", "l", "t",
    "h", "c", "a", "r", "e">>
\* "artificial intelligence"
KeyAI ==
    <<"a", "r", "t", "i", "f", "i", "c", "i", "a", "l", " ", "i", "n", "t", "e", "l",
    "l", "i", "g", "e", "n", "c", "e">>
\* "machine learning"
KeyML ==
    <<"m", "a", "c", "h", "i", "n", "e", " ", "l", "e", "a", "r", "n", "i", "n", "g">>
\* "climate change"
KeyClimate ==
    <<"c", "l", "i", "m", "a", "t", "e", " ", "c", "h", "a", "n", "g", "e">>
\* "quantum computing"
KeyQuantum ==
    <<"q", "u", "a", "n", "t", "u", "m", " ", "c", "o", "m", "p", "u", "t", "i",
    "n", "g">>
\* "default"
KeyDefault ==
    <<"d", "e", "f", "a", "u", "l", "t">>

\* The keys of DEMO_SEARCH_RESULTS in definition (dict insertion) order.
DemoKeys ==
    <<KeyAIHealthcare, KeyAI, KeyML, KeyClimate, KeyQuantum, KeyDefault>>

ResultsAIHealthcare ==
    <<
      [ title   |-> "AI in Healthcare: Transforming Patient Care",
        url     |-> "https://example.com/ai-healthcare-1",
        snippet |-> "Artificial intelligence is revolutionizing healthcare through improved diagnostics, personalized treatment plans, and predictive analytics. AI algorithms can analyze medical images with accuracy comparable to human radiologists, helping detect diseases like cancer at earlier stages." ],
      [ title   |-> "Machine Learning Applications in Medicine",
        url     |-> "https://example.com/ai-healthcare-2",
        snippet |-> "Machine learning models are being used to predict patient outcomes, optimize hospital operations, and assist in drug discovery. These technologies are helping healthcare providers make more informed decisions and improve patient care quality." ],
      [ title   |-> "The Future of AI-Powered Healthcare",
        url     |-> "https://example.com/ai-healthcare-3",
        snippet |-> "From virtual health assistants to robotic surgery, AI is expanding the possibilities in healthcare. Recent developments include AI systems that can detect diseases earlier and more accurately than traditional methods, leading to better patient outcomes." ],
      [ title   |-> "AI Ethics in Medical Practice",
        url     |-> "https://example.com/ai-healthcare-4",
        snippet |-> "As AI becomes more prevalent in healthcare, ethical considerations around patient privacy, algorithmic bias, and accountability are crucial. Medical professionals and policymakers are working to establish guidelines for responsible AI use." ],
      [ title   |-> "Real-World AI Healthcare Success Stories",
        url     |-> "https://example.com/ai-healthcare-5",
        snippet |-> "Healthcare institutions worldwide are reporting significant improvements in patient outcomes using AI. Case studies show reduced diagnosis times, improved treatment accuracy, and better resource allocation in hospitals." ]
    >>

ResultsAI ==
    <<
      [ title   |-> "Understanding Artificial Intelligence",
        url     |-> "https://example.com/ai-overview",
        snippet |-> "Artificial Intelligence (AI) refers to computer systems that can perform tasks typically requiring human intelligence. This includes learning, reasoning, problem-solving, and understanding language." ],
      [ title   |-> "AI Technology Trends 2024",
        url     |-> "https://example.com/ai-trends",
        snippet |-> "The AI landscape is rapidly evolving with breakthroughs in large language models, computer vision, and autonomous systems. Companies are investing billions in AI research and development." ],
      [ title   |-> "Applications of AI Across Industries",
        url     |-> "https://example.com/ai-applications",
        snippet |-> "AI is being applied across healthcare, finance, transportation, education, and entertainment. From chatbots to self-driving cars, AI technologies are transforming how we live and work." ]
    >>

ResultsML ==
    <<
      [ title   |-> "Machine Learning Fundamentals",
        url     |-> "https://example.com/ml-basics",
        snippet |-> "Machine learning is a subset of AI that enables systems to learn and improve from experience without explicit programming. It uses algorithms to identify patterns in data." ],
      [ title   |-> "Types of Machine Learning",
        url     |-> "https://example.com/ml-types",
        snippet |-> "The three main types of machine learning are supervised learning, unsupervised learning, and reinforcement learning. Each has different applications and use cases." ],
      [ title   |-> "Real-World ML Applications",
        url     |-> "https://example.com/ml-applications",
        snippet |-> "Machine learning powers recommendation systems, fraud detection, image recognition, and natural language processing. Companies use ML to gain insights from large datasets." ]
    >>

ResultsClimate ==
    <<
      [ title   |-> "Climate Change: Current State",
        url     |-> "https://example.com/climate-overview",
        snippet |-> "Global temperatures continue to rise, with 2024 on track to be one of the warmest years on record. Scientists warn of increasing extreme weather events and sea level rise." ],
      [ title   |-> "Climate Solutions and Mitigation",
        url     |-> "https://example.com/climate-solutions",
        snippet |-> "Renewable energy, carbon capture, and sustainable practices offer pathways to reduce emissions. Countries are implementing policies to achieve net-zero targets." ],
      [ title   |-> "Impact on Global Ecosystems",
        url     |-> "https://example.com/climate-impact",
        snippet |-> "Climate change affects biodiversity, agriculture, and human health. Ecosystems are struggling to adapt to rapid environmental changes." ]
    >>

ResultsQuantum ==
    <<
      [ title   |-> "Introduction to Quantum Computing",
        url     |-> "https://example.com/quantum-intro",
        snippet |-> "Quantum computers use quantum mechanical phenomena to solve complex problems faster than classical computers. They leverage qubits instead of traditional bits." ],
      [ title   |-> "Quantum Computing Applications",
        url     |-> "https://example.com/quantum-apps",
        snippet |-> "Potential applications include cryptography, drug discovery, optimization problems, and materials science. Major tech companies are racing to build practical quantum computers." ],
      [ title   |-> "Challenges in Quantum Computing",
        url     |-> "https://example.com/quantum-challenges",
        snippet |-> "Quantum systems are fragile and require extremely low temperatures. Error correction and scaling remain significant technical hurdles." ]
    >>

ResultsDefault ==
    <<
      [ title   |-> "Research Topic Overview",
        url     |-> "https://example.com/overview",
        snippet |-> "This topic encompasses various aspects including recent developments, practical applications, and future implications. Research shows significant interest and ongoing innovation in this field." ],
      [ title   |-> "Latest Developments and Trends",
        url     |-> "https://example.com/trends",
        snippet |-> "Current trends indicate growing adoption and increasing investment. Experts predict continued growth and evolution in the coming years with new applications emerging regularly." ],
      [ title   |-> "Practical Applications",
        url     |-> "https://example.com/applications",
        snippet |-> "Real-world implementations demonstrate the value and potential of this technology. Organizations across industries are finding innovative ways to leverage these capabilities for competitive advantage." ],
      [ title   |-> "Challenges and Considerations",
        url     |-> "https://example.com/challenges",
        snippet |-> "While promising, this field faces several challenges including technical limitations, ethical concerns, and regulatory questions that need to be addressed." ],
      [ title   |-> "Future Outlook",
        url     |-> "https://example.com/future",
        snippet |-> "The future looks bright with continued innovation expected. Researchers and practitioners are optimistic about upcoming breakthroughs and wider adoption." ]
    >>

DEMO_SEARCH_RESULTS ==
    (KeyAIHealthcare :> ResultsAIHealthcare)
    @@ (KeyAI :> ResultsAI)
    @@ (KeyML :> ResultsML)
    @@ (KeyClimate :> ResultsClimate)
    @@ (KeyQuantum :> ResultsQuantum)
    @@ (KeyDefault :> ResultsDefault)

\* FirstMatchingKey with the word test of line 156 left out: only a key that is
\* itself a substring of the query matches
RECURSIVE FirstMatchingKey_WholeKeyOnly(_, _)
FirstMatchingKey_WholeKeyOnly(query_lower, i) ==
    IF i > Len(DemoKeys) THEN KeyDefault
    ELSE LET key == DemoKeys[i] IN
         IF key = KeyDefault THEN FirstMatchingKey_WholeKeyOnly(query_lower, i + 1)
         ELSE IF Contains(query_lower, key)
              THEN key
              ELSE FirstMatchingKey_WholeKeyOnly(query_lower, i + 1)

\* get_demo_results: the first non-default key, in definition order, that is a
\* substring of the lowercased query or has a word that is one
RECURSIVE FirstMatchingKey(_, _)
FirstMatchingKey(query_lower, i) ==
    IF i > Len(DemoKeys) THEN KeyDefault
    ELSE LET key == DemoKeys[i] IN
         IF key = KeyDefault THEN FirstMatchingKey(query_lower, i + 1)
         ELSE IF Contains(query_lower, key)
                 \/ \E word \in Range(SplitWords(key, <<>>)) : Contains(query_lower, word)
              THEN key
              ELSE FirstMatchingKey(query_lower, i + 1)

get_demo_results(query, m) ==
    Take(DEMO_SEARCH_RESULTS[FirstMatchingKey(Lower(query), 1)], m)

-----------------------------------------------------------------------------
(* tools/web_search.py: WebSearchTool *)

\* demo_data imports, so the module-level flag is set
DEMO_AVAILABLE == TRUE

max_retries == 3
retry_delay == 2

\* Pow2 without the doubling: every backoff sleep is the base delay
Pow2_NoDoubling(n) == 1

RECURSIVE Pow2(_)
Pow2(n) == IF n = 0 THEN 1 ELSE 2 * Pow2(n - 1)

\* What the search backend (DDGS.text) hands back on one attempt: a list of
\* raw results, or an exception with a message.
LiveRaw(i) ==
    [ title |-> "Live result " \o ToString(i),
      href  |-> "https://live.example/" \o ToString(i),
      body  |-> "Live snippet " \o ToString(i) \o "." ]

BackendOk(n) == [kind |-> "ok", items |-> [i \in 1..n |-> LiveRaw(i)], msg |-> <<>>]
BackendRaise(m) == [kind |-> "raise", items |-> <<>>, msg |-> m]

\* "202 Ratelimit"
MsgRatelimit ==
    <<"2", "0", "2", " ", "R", "a", "t", "e", "l", "i", "m", "i", "t">>
\* "timed out"
MsgTimeout ==
    <<"t", "i", "m", "e", "d", " ", "o", "u", "t">>
\* "Ratelimit"
StrRatelimit ==
    <<"R", "a", "t", "e", "l", "i", "m", "i", "t">>

ErrorMessages == {MsgRatelimit, MsgTimeout}

BackendOutcomes ==
    {BackendOk(n) : n \in 0..MaxBackendLen} \cup {BackendRaise(m) : m \in ErrorMessages}

\* lines 63-68: the backend's raw result as a search result
ConvertResult(raw) ==
    [ title   |-> IF "title" \in DOMAIN raw THEN raw.title ELSE "No title",
      url     |-> IF "href" \in DOMAIN raw THEN raw.href ELSE "",
      snippet |-> IF "body" \in DOMAIN raw THEN raw.body ELSE "No description available" ]

\* line 76: the class of an exception is read off its message
IsRatelimit(o) == Contains(o.msg, StrRatelimit)

\* AttemptStep with line 86 left out: the fallback returns the offline results
\* and leaves the mode flag alone.
AttemptStep_NoSwitch(query, att, o) ==
    IF o.kind = "ok"
    THEN [next |-> "return", use_demo |-> use_demo, wait |-> 0,
          results |-> [i \in 1..Len(o.items) |-> ConvertResult(o.items[i])]]
    ELSE IF IsRatelimit(o)
         THEN IF att < max_retries - 1
              THEN [next |-> "retry", use_demo |-> use_demo,
                    wait |-> retry_delay * Pow2(att), results |-> <<>>]
              ELSE IF DEMO_AVAILABLE /\ USE_FALLBACK_ON_ERROR
                   THEN [next |-> "return", use_demo |-> use_demo, wait |-> 0,
                         results |-> get_demo_results(query, max_results)]
                   ELSE [next |-> "return", use_demo |-> use_demo, wait |-> 0,
                         results |-> <<>>]
         ELSE [next |-> "return", use_demo |-> use_demo, wait |-> 0, results |-> <<>>]

\* AttemptStep with line 84 testing DEMO_AVAILABLE alone: the fallback is taken
\* whatever Config.USE_FALLBACK_ON_ERROR says.
AttemptStep_AlwaysFallback(query, att, o) ==
    IF o.kind = "ok"
    THEN [next |-> "return", use_demo |-> use_demo, wait |-> 0,
          results |-> [i \in 1..Len(o.items) |-> ConvertResult(o.items[i])]]
    ELSE IF IsRatelimit(o)
         THEN IF att < max_retries - 1
              THEN [next |-> "retry", use_demo |-> use_demo,
                    wait |-> retry_delay * Pow2(att), results |-> <<>>]
              ELSE IF DEMO_AVAILABLE
                   THEN [next |-> "return", use_demo |-> TRUE, wait |-> 0,
                         results |-> get_demo_results(query, max_results)]
                   ELSE [next |-> "return", use_demo |-> use_demo, wait |-> 0,
                         results |-> <<>>]
         ELSE [next |-> "return", use_demo |-> use_demo, wait |-> 0, results |-> <<>>]

\* AttemptStep that switches to offline mode on an error that is not a rate
\* limit as well
AttemptStep_SwitchOnAnyError(query, att, o) ==
    IF o.kind = "ok"
    THEN [next |-> "return", use_demo |-> use_demo, wait |-> 0,
          results |-> [i \in 1..Len(o.items) |-> ConvertResult(o.items[i])]]
    ELSE IF IsRatelimit(o)
         THEN IF att < max_retries - 1
              THEN [next |-> "retry", use_demo |-> use_demo,
                    wait |-> retry_delay * Pow2(att), results |-> <<>>]
              ELSE IF DEMO_AVAILABLE /\ USE_FALLBACK_ON_ERROR
                   THEN [next |-> "return", use_demo |-> TRUE, wait |-> 0,
                         results |-> get_demo_results(query, max_results)]
                   ELSE [next |-> "return", use_demo |-> use_demo, wait |-> 0,
                         results |-> <<>>]
         ELSE [next |-> "return", use_demo |-> TRUE, wait |-> 0, results |-> <<>>]

\* AttemptStep with line 76 left out: every exception is handled as a rate
\* limit (retried, then the fallback).
AttemptStep_RetryAll(query, att, o) ==
    IF o.kind = "ok"
    THEN [next |-> "return", use_demo |-> use_demo, wait |-> 0,
          results |-> [i \in 1..Len(o.items) |-> ConvertResult(o.items[i])]]
    ELSE IF att < max_retries - 1
         THEN [next |-> "retry", use_demo |-> use_demo,
               wait |-> retry_delay * Pow2(att), results |-> <<>>]
         ELSE IF DEMO_AVAILABLE /\ USE_FALLBACK_ON_ERROR
              THEN [next |-> "return", use_demo |-> TRUE, wait |-> 0,
                    results |-> get_demo_results(query, max_results)]
              ELSE [next |-> "return", use_demo |-> use_demo, wait |-> 0,
                    results |-> <<>>]

\* One iteration of the retry loop (lines 50-93) on the backend's outcome o:
\* whether the call returns or retries, what it returns, the mode flag it
\* leaves and the backoff sleep it takes.
AttemptStep(query, att, o) ==
    IF o.kind = "ok"
    THEN [next |-> "return", use_demo |-> use_demo, wait |-> 0,
          results |-> [i \in 1..Len(o.items) |-> ConvertResult(o.items[i])]]
    ELSE IF IsRatelimit(o)
         THEN IF att < max_retries - 1
              THEN [next |-> "retry", use_demo |-> use_demo,
                    wait |-> retry_delay * Pow2(att), results |-> <<>>]
              ELSE IF DEMO_AVAILABLE /\ USE_FALLBACK_ON_ERROR
                   THEN [next |-> "return", use_demo |-> TRUE, wait |-> 0,
                         results |-> get_demo_results(query, max_results)]
                   ELSE [next |-> "return", use_demo |-> use_demo, wait |-> 0,
                         results |-> <<>>]
         ELSE [next |-> "return", use_demo |-> use_demo, wait |-> 0, results |-> <<>>]

OutcomeKind(o) ==
    IF o.kind = "ok" THEN "ok" ELSE IF IsRatelimit(o) THEN "ratelimit" ELSE "error"

\* OfflineSearch that re-reads the configured mode into the flag
OfflineSearch_RereadConfig(query) ==
    [results |-> get_demo_results(query, max_results), use_demo |-> DEMO_MODE]

\* OfflineSearch that looks up the query of the call before
OfflineSearch_PreviousQuery(query) ==
    [results |-> get_demo_results(IF last.made THEN last.query ELSE query, max_results),
     use_demo |-> use_demo]

\* lines 39-44: the offline branch of search
OfflineSearch(query) ==
    [results |-> get_demo_results(query, max_results), use_demo |-> use_demo]

NoCall ==
    [made |-> FALSE, returned |-> FALSE, query |-> <<>>, started_demo |-> FALSE,
     after_exhausted |-> FALSE, tried |-> <<>>, waits |-> <<>>, results |-> <<>>]

AllRatelimited == [i \in 1..max_retries |-> "ratelimit"]

\* search(query) is entered (lines 38-48): in offline mode the call returns the
\* offline lookup at once, otherwise the retry loop starts.
SearchEnter(query) ==
    /\ spc = "idle"
    /\ IF use_demo /\ DEMO_AVAILABLE
       THEN /\ spc' = "idle"
            /\ use_demo' = OfflineSearch(query).use_demo
            /\ last' = [made |-> TRUE, returned |-> TRUE, query |-> query,
                        started_demo |-> use_demo, after_exhausted |-> exhausted,
                        tried |-> <<>>, waits |-> <<>>,
                        results |-> OfflineSearch(query).results]
            /\ seen' = seen \cup {<<query, OfflineSearch(query).results,
                                    IF \E p \in seen : p[1] = query THEN 2 ELSE 1>>}
       ELSE /\ spc' = "attempt"
            /\ use_demo' = use_demo
            /\ seen' = seen
            /\ last' = [made |-> TRUE, returned |-> FALSE, query |-> query,
                        started_demo |-> use_demo, after_exhausted |-> exhausted,
                        tried |-> <<>>, waits |-> <<>>, results |-> <<>>]
    /\ attempt' = 0
    /\ UNCHANGED <<max_results, exhausted>>

\* One backend attempt of the call in progress (lines 50-95).
SearchAttempt ==
    /\ spc = "attempt"
    /\ \E o \in BackendOutcomes :
         LET r == AttemptStep(last.query, attempt, o)
             tried1 == Append(last.tried, OutcomeKind(o))
         IN
         /\ use_demo' = r.use_demo
         /\ exhausted' = (exhausted \/ tried1 = AllRatelimited)
         /\ IF r.next = "retry" /\ attempt + 1 < max_retries
            THEN /\ spc' = "attempt"
                 /\ attempt' = attempt + 1
                 /\ last' = [last EXCEPT !.tried = tried1,
                                         !.waits = Append(@, r.wait)]
            ELSE /\ spc' = "idle"
                 /\ attempt' = attempt
                 /\ last' = [last EXCEPT !.tried = tried1, !.returned = TRUE,
                                         !.results = r.results]
    /\ UNCHANGED <<max_results, seen>>

-----------------------------------------------------------------------------
(* utils/helpers.py: log_agent_action.  The sink prints; a call of it either
   returns or raises, and which is an input of the caller's step. *)

LogError == "LogError"

-----------------------------------------------------------------------------
(* agents/search_agent.py: SearchAgent.generate_search_queries *)

\* SearchAgent.__init__, line 16
demo_mode == DEMO_MODE

\* " latest developments"
SufLatestDevelopments ==
    <<" ", "l", "a", "t", "e", "s", "t", " ", "d", "e", "v", "e", "l",
      "o", "p", "m", "e", "n", "t", "s">>
\* " practical applications"
SufPracticalApplications ==
    <<" ", "p", "r", "a", "c", "t", "i", "c", "a", "l", " ", "a",
      "p", "p", "l", "i", "c", "a", "t", "i", "o", "n", "s">>
\* " latest news"
SufLatestNews ==
    <<" ", "l", "a", "t", "e", "s", "t", " ", "n", "e", "w", "s">>
\* " applications"
SufApplications ==
    <<" ", "a", "p", "p", "l", "i", "c", "a", "t", "i", "o", "n", "s">>

\* lines 71-75
DemoQueries(t) ==
    <<t, t \o SufLatestDevelopments, t \o SufPracticalApplications>>

\* line 116
FallbackQueries(t) ==
    <<t, t \o SufLatestNews, t \o SufApplications>>

\* lines 103-104: the stripped completion split into lines, each line stripped,
\* the empty ones dropped
ParseQueries(text) ==
    LET lines == SplitOn(Strip(text), "\n", <<>>)
        NonBlank(q) == Strip(q) # <<>>
        kept == SelectSeq(lines, NonBlank)
    IN  [i \in 1..Len(kept) |-> Strip(kept[i])]

\* What the chat-completion call hands back: a completion text, or an exception.
ModelOk(text) == [kind |-> "ok", text |-> text]
ModelRaise == [kind |-> "raise", text |-> <<>>]

\* "overview\nnews\nuses"
CompletionThree ==
    <<"o", "v", "e", "r", "v", "i", "e", "w", "\n", "n", "e", "w", "s", "\n",
      "u", "s", "e", "s">>
\* " overview\n\n  news \nuses\ncosts\n"
CompletionFour ==
    <<" ", "o", "v", "e", "r", "v", "i", "e", "w", "\n", "\n", " ", " ", "n", "e", "w", "s",
      " ", "\n", "u", "s", "e", "s", "\n", "c", "o", "s", "t", "s", "\n">>
\* ""
CompletionEmpty == <<>>
\* "\n \n"
CompletionBlank == <<"\n", " ", "\n">>

ModelOutcomes ==
    {ModelOk(t) : t \in {CompletionThree, CompletionFour, CompletionEmpty, CompletionBlank}}
        \cup {ModelRaise}

\* the outcomes of the log calls a planner call makes, in call order
PlannerLogs == [1..3 -> BOOLEAN]

PlanReturn(qs, calls) ==
    [kind |-> "return", queries |-> qs, err |-> "", model_calls |-> calls]
PlanRaise(err, calls) ==
    [kind |-> "raise", queries |-> <<>>, err |-> err, model_calls |-> calls]

\* generate_search_queries with the offline branch returning its list whole
\* (line 79 without the slice)
generate_search_queries_DemoUnsliced(t, num_queries, llm, logs) ==
    IF ~logs[1] THEN PlanRaise(LogError, 0)
    ELSE IF demo_mode
         THEN IF ~logs[2] THEN PlanRaise(LogError, 0)
              ELSE PlanReturn(DemoQueries(t), 0)
         ELSE IF llm.kind = "ok" /\ logs[2]
              THEN PlanReturn(Take(ParseQueries(llm.text), num_queries), 1)
              ELSE IF ~logs[3] THEN PlanRaise(LogError, 1)
                   ELSE PlanReturn(FallbackQueries(t), 1)

\* generate_search_queries(topic, num_queries) (lines 56-116) on the model's
\* outcome llm and the log outcomes logs: the list it returns or the error it
\* raises, and the number of model calls it made.
generate_search_queries(t, num_queries, llm, logs) ==
    IF ~logs[1] THEN PlanRaise(LogError, 0)
    ELSE IF demo_mode
         THEN IF ~logs[2] THEN PlanRaise(LogError, 0)
              ELSE PlanReturn(Take(DemoQueries(t), num_queries), 0)
         ELSE IF llm.kind = "ok" /\ logs[2]
              THEN PlanReturn(Take(ParseQueries(llm.text), num_queries), 1)
              ELSE IF ~logs[3] THEN PlanRaise(LogError, 1)
                   ELSE PlanReturn(FallbackQueries(t), 1)

NoPlan ==
    [made |-> FALSE, topic |-> <<>>, count |-> 0, result |-> PlanReturn(<<>>, 0)]

\* One call of generate_search_queries, recorded.
PlanCall(t, num_queries) ==
    \E llm \in ModelOutcomes, logs \in PlannerLogs :
        plan' = [made |-> TRUE, topic |-> t, count |-> num_queries,
                 result |-> generate_search_queries(t, num_queries, llm, logs)]

\* "x"
TopicX == <<"x">>

Topics == {KeyML, TopicX, <<>>}

-----------------------------------------------------------------------------
(* agents/search_agent.py: SearchAgent.search_and_gather *)

\* the default of generate_search_queries' num_queries, which line 131 leaves
\* in force
DefaultNumQueries == 3

\* lines 139-145 without line 144: no url is ever recorded as seen
RECURSIVE DedupFrom_NoSeenAdd(_, _, _)
DedupFrom_NoSeenAdd(rest, seen_urls, unique_results) ==
    IF rest = <<>> THEN unique_results
    ELSE LET result == Head(rest) IN
         IF result.url \notin seen_urls
         THEN DedupFrom_NoSeenAdd(Tail(rest), seen_urls, Append(unique_results, result))
         ELSE DedupFrom_NoSeenAdd(Tail(rest), seen_urls, unique_results)

\* lines 139-145: the loop over all_results
RECURSIVE DedupFrom(_, _, _)
DedupFrom(rest, seen_urls, unique_results) ==
    IF rest = <<>> THEN unique_results
    ELSE LET result == Head(rest) IN
         IF result.url \notin seen_urls
         THEN DedupFrom(Tail(rest), seen_urls \cup {result.url}, Append(unique_results, result))
         ELSE DedupFrom(Tail(rest), seen_urls, unique_results)

Dedup(results) == DedupFrom(results, {}, <<>>)

NoSearchData ==
    [made |-> FALSE, topic |-> <<>>, queries |-> <<>>, results |-> <<>>, total_sources |-> 0]

\* lines 150-155
SearchData(t, qs, unique_results) ==
    [made |-> TRUE, topic |-> t, queries |-> qs, results |-> unique_results,
     total_sources |-> Len(unique_results)]

-----------------------------------------------------------------------------
(* The characters of the snippets.  A result carries its snippet as a string;
   the analysis computes on the characters, which these tables give. *)

DemoSnippetText ==
    (ResultsAIHealthcare[1].snippet :>
            <<"A", "r", "t", "i", "f", "i", "c", "i", "a", "l", " ", "i", "n", "t", "e",
            "l", "l", "i", "g", "e", "n", "c", "e", " ", "i", "s", " ", "r", "e", "v", "o",
            "l", "u", "t", "i", "o", "n", "i", "z", "i", "n", "g", " ", "h", "e", "a", "l",
            "t", "h", "c", "a", "r", "e", " ", "t", "h", "r", "o", "u", "g", "h", " ", "i",
            "m", "p", "r", "o", "v", "e", "d", " ", "d", "i", "a", "g", "n", "o", "s", "t",
            "i", "c", "s", ",", " ", "p", "e", "r", "s", "o", "n", "a", "l", "i", "z", "e",
            "d", " ", "t", "r", "e", "a", "t", "m", "e", "n", "t", " ", "p", "l", "a", "n",
            "s", ",", " ", "a", "n", "d", " ", "p", "r", "e", "d", "i", "c", "t", "i", "v",
            "e", " ", "a", "n", "a", "l", "y", "t", "i", "c", "s", ".", " ", "A", "I", " ",
            "a", "l", "g", "o", "r", "i", "t", "h", "m", "s", " ", "c", "a", "n", " ", "a",
            "n", "a", "l", "y", "z", "e", " ", "m", "e", "d", "i", "c", "a", "l", " ", "i",
            "m", "a", "g", "e", "s", " ", "w", "i", "t", "h", " ", "a", "c", "c", "u", "r",
            "a", "c", "y", " ", "c", "o", "m", "p", "a", "r", "a", "b", "l", "e", " ", "t",
            "o", " ", "h", "u", "m", "a", "n", " ", "r", "a", "d", "i", "o", "l", "o", "g",
            "i", "s", "t", "s", ",", " ", "h", "e", "l", "p", "i", "n", "g", " ", "d", "e",
            "t", "e", "c", "t", " ", "d", "i", "s", "e", "a", "s", "e", "s", " ", "l", "i",
            "k", "e", " ", "c", "a", "n", "c", "e", "r", " ", "a", "t", " ", "e", "a", "r",
            "l", "i", "e", "r", " ", "s", "t", "a", "g", "e", "s", ".">>)
    @@ (ResultsAIHealthcare[2].snippet :>
            <<"M", "a", "c", "h", "i", "n", "e", " ", "l", "e", "a", "r", "n", "i", "n",
            "g", " ", "m", "o", "d", "e", "l", "s", " ", "a", "r", "e", " ", "b", "e", "i",
            "n", "g", " ", "u", "s", "e", "d", " ", "t", "o", " ", "p", "r", "e", "d", "i",
            "c", "t", " ", "p", "a", "t", "i", "e", "n", "t", " ", "o", "u", "t", "c", "o",
            "m", "e", "s", ",", " ", "o", "p", "t", "i", "m", "i", "z", "e", " ", "h", "o",
            "s", "p", "i", "t", "a", "l", " ", "o", "p", "e", "r", "a", "t", "i", "o", "n",
            "s", ",", " ", "a", "n", "d", " ", "a", "s", "s", "i", "s", "t", " ", "i", "n",
            " ", "d", "r", "u", "g", " ", "d", "i", "s", "c", "o", "v", "e", "r", "y", ".",
            " ", "T", "h", "e", "s", "e", " ", "t", "e", "c", "h", "n", "o", "l", "o", "g",
            "i", "e", "s", " ", "a", "r", "e", " ", "h", "e", "l", "p", "i", "n", "g", " ",
            "h", "e", "a", "l", "t", "h", "c", "a", "r", "e", " ", "p", "r", "o", "v", "i",
            "d", "e", "r", "s", " ", "m", "a", "k", "e", " ", "m", "o", "r", "e", " ", "i",
            "n", "f", "o", "r", "m", "e", "d", " ", "d", "e", "c", "i", "s", "i", "o", "n",
            "s", " ", "a", "n", "d", " ", "i", "m", "p", "r", "o", "v", "e", " ", "p", "a",
            "t", "i", "e", "n", "t", " ", "c", "a", "r", "e", " ", "q", "u", "a", "l", "i",
            "t", "y", ".">>)
    @@ (ResultsAIHealthcare[3].snippet :>
            <<"F", "r", "o", "m", " ", "v", "i", "r", "t", "u", "a", "l", " ", "h", "e",
            "a", "l", "t", "h", " ", "a", "s", "s", "i", "s", "t", "a", "n", "t", "s", " ",
            "t", "o", " ", "r", "o", "b", "o", "t", "i", "c", " ", "s", "u", "r", "g", "e",
            "r", "y", ",", " ", "A", "I", " ", "i", "s", " ", "e", "x", "p", "a", "n", "d",
            "i", "n", "g", " ", "t", "h", "e", " ", "p", "o", "s", "s", "i", "b", "i", "l",
            "i", "t", "i", "e", "s", " ", "i", "n", " ", "h", "e", "a", "l", "t", "h", "c",
            "a", "r", "e", ".", " ", "R", "e", "c", "e", "n", "t", " ", "d", "e", "v", "e",
            "l", "o", "p", "m", "e", "n", "t", "s", " ", "i", "n", "c", "l", "u", "d", "e",
            " ", "A", "I", " ", "s", "y", "s", "t", "e", "m", "s", " ", "t", "h", "a", "t",
            " ", "c", "a", "n", " ", "d", "e", "t", "e", "c", "t", " ", "d", "i", "s", "e",
            "a", "s", "e", "s", " ", "e", "a", "r", "l", "i", "e", "r", " ", "a", "n", "d",
            " ", "m", "o", "r", "e", " ", "a", "c", "c", "u", "r", "a", "t", "e", "l", "y",
            " ", "t", "h", "a", "n", " ", "t", "r", "a", "d", "i", "t", "i", "o", "n", "a",
            "l", " ", "m", "e", "t", "h", "o", "d", "s", ",", " ", "l", "e", "a", "d", "i",
            "n", "g", " ", "t", "o", " ", "b", "e", "t", "t", "e", "r", " ", "p", "a", "t",
            "i", "e", "n", "t", " ", "o", "u", "t", "c", "o", "m", "e", "s", ".">>)
    @@ (ResultsAIHealthcare[4].snippet :>
            <<"A", "s", " ", "A", "I", " ", "b", "e", "c", "o", "m", "e", "s", " ", "m",
            "o", "r", "e", " ", "p", "r", "e", "v", "a", "l", "e", "n", "t", " ", "i", "n",
            " ", "h", "e", "a", "l", "t", "h", "c", "a", "r", "e", ",", " ", "e", "t", "h",
            "i", "c", "a", "l", " ", "c", "o", "n", "s", "i", "d", "e", "r", "a", "t", "i",
            "o", "n", "s", " ", "a", "r", "o", "u", "n", "d", " ", "p", "a", "t", "i", "e",
            "n", "t", " ", "p", "r", "i", "v", "a", "c", "y", ",", " ", "a", "l", "g", "o",
            "r", "i", "t", "h", "m", "i", "c", " ", "b", "i", "a", "s", ",", " ", "a", "n",
            "d", " ", "a", "c", "c", "o", "u", "n", "t", "a", "b", "i", "l", "i", "t", "y",
            " ", "a", "r", "e", " ", "c", "r", "u", "c", "i", "a", "l", ".", " ", "M", "e",
            "d", "i", "c", "a", "l", " ", "p", "r", "o", "f", "e", "s", "s", "i", "o", "n",
            "a", "l", "s", " ", "a", "n", "d", " ", "p", "o", "l", "i", "c", "y", "m", "a",
            "k", "e", "r", "s", " ", "a", "r", "e", " ", "w", "o", "r", "k", "i", "n", "g",
            " ", "t", "o", " ", "e", "s", "t", "a", "b", "l", "i", "s", "h", " ", "g", "u",
            "i", "d", "e", "l", "i", "n", "e", "s", " ", "f", "o", "r", " ", "r", "e", "s",
            "p", "o", "n", "s", "i", "b", "l", "e", " ", "A", "I", " ", "u", "s", "e", ".">>)
    @@ (ResultsAIHealthcare[5].snippet :>
            <<"H", "e", "a", "l", "t", "h", "c", "a", "r", "e", " ", "i", "n", "s", "t",
            "i", "t", "u", "t", "i", "o", "n", "s", " ", "w", "o", "r", "l", "d", "w", "i",
            "d", "e", " ", "a", "r", "e", " ", "r", "e", "p", "o", "r", "t", "i", "n", "g",
            " ", "s", "i", "g", "n", "i", "f", "i", "c", "a", "n", "t", " ", "i", "m", "p",
            "r", "o", "v", "e", "m", "e", "n", "t", "s", " ", "i", "n", " ", "p", "a", "t",
            "i", "e", "n", "t", " ", "o", "u", "t", "c", "o", "m", "e", "s", " ", "u", "s",
            "i", "n", "g", " ", "A", "I", ".", " ", "C", "a", "s", "e", " ", "s", "t", "u",
            "d", "i", "e", "s", " ", "s", "h", "o", "w", " ", "r", "e", "d", "u", "c", "e",
            "d", " ", "d", "i", "a", "g", "n", "o", "s", "i", "s", " ", "t", "i", "m", "e",
            "s", ",", " ", "i", "m", "p", "r", "o", "v", "e", "d", " ", "t", "r", "e", "a",
            "t", "m", "e", "n", "t", " ", "a", "c", "c", "u", "r", "a", "c", "y", ",", " ",
            "a", "n", "d", " ", "b", "e", "t", "t", "e", "r", " ", "r", "e", "s", "o", "u",
            "r", "c", "e", " ", "a", "l", "l", "o", "c", "a", "t", "i", "o", "n", " ", "i",
            "n", " ", "h", "o", "s", "p", "i", "t", "a", "l", "s", ".">>)
    @@ (ResultsAI[1].snippet :>
            <<"A", "r", "t", "i", "f", "i", "c", "i", "a", "l", " ", "I", "n", "t", "e",
            "l", "l", "i", "g", "e", "n", "c", "e", " ", "(", "A", "I", ")", " ", "r", "e",
            "f", "e", "r", "s", " ", "t", "o", " ", "c", "o", "m", "p", "u", "t", "e", "r",
            " ", "s", "y", "s", "t", "e", "m", "s", " ", "t", "h", "a", "t", " ", "c", "a",
            "n", " ", "p", "e", "r", "f", "o", "r", "m", " ", "t", "a", "s", "k", "s", " ",
            "t", "y", "p", "i", "c", "a", "l", "l", "y", " ", "r", "e", "q", "u", "i", "r",
            "i", "n", "g", " ", "h", "u", "m", "a", "n", " ", "i", "n", "t", "e", "l", "l",
            "i", "g", "e", "n", "c", "e", ".", " ", "T", "h", "i", "s", " ", "i", "n", "c",
            "l", "u", "d", "e", "s", " ", "l", "e", "a", "r", "n", "i", "n", "g", ",", " ",
            "r", "e", "a", "s", "o", "n", "i", "n", "g", ",", " ", "p", "r", "o", "b", "l",
            "e", "m", "-", "s", "o", "l", "v", "i", "n", "g", ",", " ", "a", "n", "d", " ",
            "u", "n", "d", "e", "r", "s", "t", "a", "n", "d", "i", "n", "g", " ", "l", "a",
            "n", "g", "u", "a", "g", "e", ".">>)
    @@ (ResultsAI[2].snippet :>
            <<"T", "h", "e", " ", "A", "I", " ", "l", "a", "n", "d", "s", "c", "a", "p",
            "e", " ", "i", "s", " ", "r", "a", "p", "i", "d", "l", "y", " ", "e", "v", "o",
            "l", "v", "i", "n", "g", " ", "w", "i", "t", "h", " ", "b", "r", "e", "a", "k",
            "t", "h", "r", "o", "u", "g", "h", "s", " ", "i", "n", " ", "l", "a", "r", "g",
            "e", " ", "l", "a", "n", "g", "u", "a", "g", "e", " ", "m", "o", "d", "e", "l",
            "s", ",", " ", "c", "o", "m", "p", "u", "t", "e", "r", " ", "v", "i", "s", "i",
            "o", "n", ",", " ", "a", "n", "d", " ", "a", "u", "t", "o", "n", "o", "m", "o",
            "u", "s", " ", "s", "y", "s", "t", "e", "m", "s", ".", " ", "C", "o", "m", "p",
            "a", "n", "i", "e", "s", " ", "a", "r", "e", " ", "i", "n", "v", "e", "s", "t",
            "i", "n", "g", " ", "b", "i", "l", "l", "i", "o", "n", "s", " ", "i", "n", " ",
            "A", "I", " ", "r", "e", "s", "e", "a", "r", "c", "h", " ", "a", "n", "d", " ",
            "d", "e", "v", "e", "l", "o", "p", "m", "e", "n", "t", ".">>)
    @@ (ResultsAI[3].snippet :>
            <<"A", "I", " ", "i", "s", " ", "b", "e", "i", "n", "g", " ", "a", "p", "p",
            "l", "i", "e", "d", " ", "a", "c", "r", "o", "s", "s", " ", "h", "e", "a", "l",
            "t", "h", "c", "a", "r", "e", ",", " ", "f", "i", "n", "a", "n", "c", "e", ",",
            " ", "t", "r", "a", "n", "s", "p", "o", "r", "t", "a", "t", "i", "o", "n", ",",
            " ", "e", "d", "u", "c", "a", "t", "i", "o", "n", ",", " ", "a", "n", "d", " ",
            "e", "n", "t", "e", "r", "t", "a", "i", "n", "m", "e", "n", "t", ".", " ", "F",
            "r", "o", "m", " ", "c", "h", "a", "t", "b", "o", "t", "s", " ", "t", "o", " ",
            "s", "e", "l", "f", "-", "d", "r", "i", "v", "i", "n", "g", " ", "c", "a", "r",
            "s", ",", " ", "A", "I", " ", "t", "e", "c", "h", "n", "o", "l", "o", "g", "i",
            "e", "s", " ", "a", "r", "e", " ", "t", "r", "a", "n", "s", "f", "o", "r", "m",
            "i", "n", "g", " ", "h", "o", "w", " ", "w", "e", " ", "l", "i", "v", "e", " ",
            "a", "n", "d", " ", "w", "o", "r", "k", ".">>)
    @@ (ResultsML[1].snippet :>
            <<"M", "a", "c", "h", "i", "n", "e", " ", "l", "e", "a", "r", "n", "i", "n",
            "g", " ", "i", "s", " ", "a", " ", "s", "u", "b", "s", "e", "t", " ", "o", "f",
            " ", "A", "I", " ", "t", "h", "a", "t", " ", "e", "n", "a", "b", "l", "e", "s",
            " ", "s", "y", "s", "t", "e", "m", "s", " ", "t", "o", " ", "l", "e", "a", "r",
            "n", " ", "a", "n", "d", " ", "i", "m", "p", "r", "o", "v", "e", " ", "f", "r",
            "o", "m", " ", "e", "x", "p", "e", "r", "i", "e", "n", "c", "e", " ", "w", "i",
            "t", "h", "o", "u", "t", " ", "e", "x", "p", "l", "i", "c", "i", "t", " ", "p",
            "r", "o", "g", "r", "a", "m", "m", "i", "n", "g", ".", " ", "I", "t", " ", "u",
            "s", "e", "s", " ", "a", "l", "g", "o", "r", "i", "t", "h", "m", "s", " ", "t",
            "o", " ", "i", "d", "e", "n", "t", "i", "f", "y", " ", "p", "a", "t", "t", "e",
            "r", "n", "s", " ", "i", "n", " ", "d", "a", "t", "a", ".">>)
    @@ (ResultsML[2].snippet :>
            <<"T", "h", "e", " ", "t", "h", "r", "e", "e", " ", "m", "a", "i", "n", " ",
            "t", "y", "p", "e", "s", " ", "o", "f", " ", "m", "a", "c", "h", "i", "n", "e",
            " ", "l", "e", "a", "r", "n", "i", "n", "g", " ", "a", "r", "e", " ", "s", "u",
            "p", "e", "r", "v", "i", "s", "e", "d", " ", "l", "e", "a", "r", "n", "i", "n",
            "g", ",", " ", "u", "n", "s", "u", "p", "e", "r", "v", "i", "s", "e", "d", " ",
            "l", "e", "a", "r", "n", "i", "n", "g", ",", " ", "a", "n", "d", " ", "r", "e",
            "i", "n", "f", "o", "r", "c", "e", "m", "e", "n", "t", " ", "l", "e", "a", "r",
            "n", "i", "n", "g", ".", " ", "E", "a", "c", "h", " ", "h", "a", "s", " ", "d",
            "i", "f", "f", "e", "r", "e", "n", "t", " ", "a", "p", "p", "l", "i", "c", "a",
            "t", "i", "o", "n", "s", " ", "a", "n", "d", " ", "u", "s", "e", " ", "c", "a",
            "s", "e", "s", ".">>)
    @@ (ResultsML[3].snippet :>
            <<"M", "a", "c", "h", "i", "n", "e", " ", "l", "e", "a", "r", "n", "i", "n",
            "g", " ", "p", "o", "w", "e", "r", "s", " ", "r", "e", "c", "o", "m", "m", "e",
            "n", "d", "a", "t", "i", "o", "n", " ", "s", "y", "s", "t", "e", "m", "s", ",",
            " ", "f", "r", "a", "u", "d", " ", "d", "e", "t", "e", "c", "t", "i", "o", "n",
            ",", " ", "i", "m", "a", "g", "e", " ", "r", "e", "c", "o", "g", "n", "i", "t",
            "i", "o", "n", ",", " ", "a", "n", "d", " ", "n", "a", "t", "u", "r", "a", "l",
            " ", "l", "a", "n", "g", "u", "a", "g", "e", " ", "p", "r", "o", "c", "e", "s",
            "s", "i", "n", "g", ".", " ", "C", "o", "m", "p", "a", "n", "i", "e", "s", " ",
            "u", "s", "e", " ", "M", "L", " ", "t", "o", " ", "g", "a", "i", "n", " ", "i",
            "n", "s", "i", "g", "h", "t", "s", " ", "f", "r", "o", "m", " ", "l", "a", "r",
            "g", "e", " ", "d", "a", "t", "a", "s", "e", "t", "s", ".">>)
    @@ (ResultsClimate[1].snippet :>
            <<"G", "l", "o", "b", "a", "l", " ", "t", "e", "m", "p", "e", "r", "a", "t",
            "u", "r", "e", "s", " ", "c", "o", "n", "t", "i", "n", "u", "e", " ", "t", "o",
            " ", "r", "i", "s", "e", ",", " ", "w", "i", "t", "h", " ", "2", "0", "2", "4",
            " ", "o", "n", " ", "t", "r", "a", "c", "k", " ", "t", "o", " ", "b", "e", " ",
            "o", "n", "e", " ", "o", "f", " ", "t", "h", "e", " ", "w", "a", "r", "m", "e",
            "s", "t", " ", "y", "e", "a", "r", "s", " ", "o", "n", " ", "r", "e", "c", "o",
            "r", "d", ".", " ", "S", "c", "i", "e", "n", "t", "i", "s", "t", "s", " ", "w",
            "a", "r", "n", " ", "o", "f", " ", "i", "n", "c", "r", "e", "a", "s", "i", "n",
            "g", " ", "e", "x", "t", "r", "e", "m", "e", " ", "w", "e", "a", "t", "h", "e",
            "r", " ", "e", "v", "e", "n", "t", "s", " ", "a", "n", "d", " ", "s", "e", "a",
            " ", "l", "e", "v", "e", "l", " ", "r", "i", "s", "e", ".">>)
    @@ (ResultsClimate[2].snippet :>
            <<"R", "e", "n", "e", "w", "a", "b", "l", "e", " ", "e", "n", "e", "r", "g",
            "y", ",", " ", "c", "a", "r", "b", "o", "n", " ", "c", "a", "p", "t", "u", "r",
            "e", ",", " ", "a", "n", "d", " ", "s", "u", "s", "t", "a", "i", "n", "a", "b",
            "l", "e", " ", "p", "r", "a", "c", "t", "i", "c", "e", "s", " ", "o", "f", "f",
            "e", "r", " ", "p", "a", "t", "h", "w", "a", "y", "s", " ", "t", "o", " ", "r",
            "e", "d", "u", "c", "e", " ", "e", "m", "i", "s", "s", "i", "o", "n", "s", ".",
            " ", "C", "o", "u", "n", "t", "r", "i", "e", "s", " ", "a", "r", "e", " ", "i",
            "m", "p", "l", "e", "m", "e", "n", "t", "i", "n", "g", " ", "p", "o", "l", "i",
            "c", "i", "e", "s", " ", "t", "o", " ", "a", "c", "h", "i", "e", "v", "e", " ",
            "n", "e", "t", "-", "z", "e", "r", "o", " ", "t", "a", "r", "g", "e", "t", "s",
            ".">>)
    @@ (ResultsClimate[3].snippet :>
            <<"C", "l", "i", "m", "a", "t", "e", " ", "c", "h", "a", "n", "g", "e", " ",
            "a", "f", "f", "e", "c", "t", "s", " ", "b", "i", "o", "d", "i", "v", "e", "r",
            "s", "i", "t", "y", ",", " ", "a", "g", "r", "i", "c", "u", "l", "t", "u", "r",
            "e", ",", " ", "a", "n", "d", " ", "h", "u", "m", "a", "n", " ", "h", "e", "a",
            "l", "t", "h", ".", " ", "E", "c", "o", "s", "y", "s", "t", "e", "m", "s", " ",
            "a", "r", "e", " ", "s", "t", "r", "u", "g", "g", "l", "i", "n", "g", " ", "t",
            "o", " ", "a", "d", "a", "p", "t", " ", "t", "o", " ", "r", "a", "p", "i", "d",
            " ", "e", "n", "v", "i", "r", "o", "n", "m", "e", "n", "t", "a", "l", " ", "c",
            "h", "a", "n", "g", "e", "s", ".">>)
    @@ (ResultsQuantum[1].snippet :>
            <<"Q", "u", "a", "n", "t", "u", "m", " ", "c", "o", "m", "p", "u", "t", "e",
            "r", "s", " ", "u", "s", "e", " ", "q", "u", "a", "n", "t", "u", "m", " ", "m",
            "e", "c", "h", "a", "n", "i", "c", "a", "l", " ", "p", "h", "e", "n", "o", "m",
            "e", "n", "a", " ", "t", "o", " ", "s", "o", "l", "v", "e", " ", "c", "o", "m",
            "p", "l", "e", "x", " ", "p", "r", "o", "b", "l", "e", "m", "s", " ", "f", "a",
            "s", "t", "e", "r", " ", "t", "h", "a", "n", " ", "c", "l", "a", "s", "s", "i",
            "c", "a", "l", " ", "c", "o", "m", "p", "u", "t", "e", "r", "s", ".", " ", "T",
            "h", "e", "y", " ", "l", "e", "v", "e", "r", "a", "g", "e", " ", "q", "u", "b",
            "i", "t", "s", " ", "i", "n", "s", "t", "e", "a", "d", " ", "o", "f", " ", "t",
            "r", "a", "d", "i", "t", "i", "o", "n", "a", "l", " ", "b", "i", "t", "s", ".">>)
    @@ (ResultsQuantum[2].snippet :>
            <<"P", "o", "t", "e", "n", "t", "i", "a", "l", " ", "a", "p", "p", "l", "i",
            "c", "a", "t", "i", "o", "n", "s", " ", "i", "n", "c", "l", "u", "d", "e", " ",
            "c", "r", "y", "p", "t", "o", "g", "r", "a", "p", "h", "y", ",", " ", "d", "r",
            "u", "g", " ", "d", "i", "s", "c", "o", "v", "e", "r", "y", ",", " ", "o", "p",
            "t", "i", "m", "i", "z", "a", "t", "i", "o", "n", " ", "p", "r", "o", "b", "l",
            "e", "m", "s", ",", " ", "a", "n", "d", " ", "m", "a", "t", "e", "r", "i", "a",
            "l", "s", " ", "s", "c", "i", "e", "n", "c", "e", ".", " ", "M", "a", "j", "o",
            "r", " ", "t", "e", "c", "h", " ", "c", "o", "m", "p", "a", "n", "i", "e", "s",
            " ", "a", "r", "e", " ", "r", "a", "c", "i", "n", "g", " ", "t", "o", " ", "b",
            "u", "i", "l", "d", " ", "p", "r", "a", "c", "t", "i", "c", "a", "l", " ", "q",
            "u", "a", "n", "t", "u", "m", " ", "c", "o", "m", "p", "u", "t", "e", "r", "s",
            ".">>)
    @@ (ResultsQuantum[3].snippet :>
            <<"Q", "u", "a", "n", "t", "u", "m", " ", "s", "y", "s", "t", "e", "m", "s",
            " ", "a", "r", "e", " ", "f", "r", "a", "g", "i", "l", "e", " ", "a", "n", "d",
            " ", "r", "e", "q", "u", "i", "r", "e", " ", "e", "x", "t", "r", "e", "m", "e",
            "l", "y", " ", "l", "o", "w", " ", "t", "e", "m", "p", "e", "r", "a", "t", "u",
            "r", "e", "s", ".", " ", "E", "r", "r", "o", "r", " ", "c", "o", "r", "r", "e",
            "c", "t", "i", "o", "n", " ", "a", "n", "d", " ", "s", "c", "a", "l", "i", "n",
            "g", " ", "r", "e", "m", "a", "i", "n", " ", "s", "i", "g", "n", "i", "f", "i",
            "c", "a", "n", "t", " ", "t", "e", "c", "h", "n", "i", "c", "a", "l", " ", "h",
            "u", "r", "d", "l", "e", "s", ".">>)
    @@ (ResultsDefault[1].snippet :>
            <<"T", "h", "i", "s", " ", "t", "o", "p", "i", "c", " ", "e", "n", "c", "o",
            "m", "p", "a", "s", "s", "e", "s", " ", "v", "a", "r", "i", "o", "u", "s", " ",
            "a", "s", "p", "e", "c", "t", "s", " ", "i", "n", "c", "l", "u", "d", "i", "n",
            "g", " ", "r", "e", "c", "e", "n", "t", " ", "d", "e", "v", "e", "l", "o", "p",
            "m", "e", "n", "t", "s", ",", " ", "p", "r", "a", "c", "t", "i", "c", "a", "l",
            " ", "a", "p", "p", "l", "i", "c", "a", "t", "i", "o", "n", "s", ",", " ", "a",
            "n", "d", " ", "f", "u", "t", "u", "r", "e", " ", "i", "m", "p", "l", "i", "c",
            "a", "t", "i", "o", "n", "s", ".", " ", "R", "e", "s", "e", "a", "r", "c", "h",
            " ", "s", "h", "o", "w", "s", " ", "s", "i", "g", "n", "i", "f", "i", "c", "a",
            "n", "t", " ", "i", "n", "t", "e", "r", "e", "s", "t", " ", "a", "n", "d", " ",
            "o", "n", "g", "o", "i", "n", "g", " ", "i", "n", "n", "o", "v", "a", "t", "i",
            "o", "n", " ", "i", "n", " ", "t", "h", "i", "s", " ", "f", "i", "e", "l", "d",
            ".">>)
    @@ (ResultsDefault[2].snippet :>
            <<"C", "u", "r", "r", "e", "n", "t", " ", "t", "r", "e", "n", "d", "s", " ",
            "i", "n", "d", "i", "c", "a", "t", "e", " ", "g", "r", "o", "w", "i", "n", "g",
            " ", "a", "d", "o", "p", "t", "i", "o", "n", " ", "a", "n", "d", " ", "i", "n",
            "c", "r", "e", "a", "s", "i", "n", "g", " ", "i", "n", "v", "e", "s", "t", "m",
            "e", "n", "t", ".", " ", "E", "x", "p", "e", "r", "t", "s", " ", "p", "r", "e",
            "d", "i", "c", "t", " ", "c", "o", "n", "t", "i", "n", "u", "e", "d", " ", "g",
            "r", "o", "w", "t", "h", " ", "a", "n", "d", " ", "e", "v", "o", "l", "u", "t",
            "i", "o", "n", " ", "i", "n", " ", "t", "h", "e", " ", "c", "o", "m", "i", "n",
            "g", " ", "y", "e", "a", "r", "s", " ", "w", "i", "t", "h", " ", "n", "e", "w",
            " ", "a", "p", "p", "l", "i", "c", "a", "t", "i", "o", "n", "s", " ", "e", "m",
            "e", "r", "g", "i", "n", "g", " ", "r", "e", "g", "u", "l", "a", "r", "l", "y",
            ".">>)
    @@ (ResultsDefault[3].snippet :>
            <<"R", "e", "a", "l", "-", "w", "o", "r", "l", "d", " ", "i", "m", "p", "l",
            "e", "m", "e", "n", "t", "a", "t", "i", "o", "n", "s", " ", "d", "e", "m", "o",
            "n", "s", "t", "r", "a", "t", "e", " ", "t", "h", "e", " ", "v", "a", "l", "u",
            "e", " ", "a", "n", "d", " ", "p", "o", "t", "e", "n", "t", "i", "a", "l", " ",
            "o", "f", " ", "t", "h", "i", "s", " ", "t", "e", "c", "h", "n", "o", "l", "o",
            "g", "y", ".", " ", "O", "r", "g", "a", "n", "i", "z", "a", "t", "i", "o", "n",
            "s", " ", "a", "c", "r", "o", "s", "s", " ", "i", "n", "d", "u", "s", "t", "r",
            "i", "e", "s", " ", "a", "r", "e", " ", "f", "i", "n", "d", "i", "n", "g", " ",
            "i", "n", "n", "o", "v", "a", "t", "i", "v", "e", " ", "w", "a", "y", "s", " ",
            "t", "o", " ", "l", "e", "v", "e", "r", "a", "g", "e", " ", "t", "h", "e", "s",
            "e", " ", "c", "a", "p", "a", "b", "i", "l", "i", "t", "i", "e", "s", " ", "f",
            "o", "r", " ", "c", "o", "m", "p", "e", "t", "i", "t", "i", "v", "e", " ", "a",
            "d", "v", "a", "n", "t", "a", "g", "e", ".">>)
    @@ (ResultsDefault[4].snippet :>
            <<"W", "h", "i", "l", "e", " ", "p", "r", "o", "m", "i", "s", "i", "n", "g",
            ",", " ", "t", "h", "i", "s", " ", "f", "i", "e", "l", "d", " ", "f", "a", "c",
            "e", "s", " ", "s", "e", "v", "e", "r", "a", "l", " ", "c", "h", "a", "l", "l",
            "e", "n", "g", "e", "s", " ", "i", "n", "c", "l", "u", "d", "i", "n", "g", " ",
            "t", "e", "c", "h", "n", "i", "c", "a", "l", " ", "l", "i", "m", "i", "t", "a",
            "t", "i", "o", "n", "s", ",", " ", "e", "t", "h", "i", "c", "a", "l", " ", "c",
            "o", "n", "c", "e", "r", "n", "s", ",", " ", "a", "n", "d", " ", "r", "e", "g",
            "u", "l", "a", "t", "o", "r", "y", " ", "q", "u", "e", "s", "t", "i", "o", "n",
            "s", " ", "t", "h", "a", "t", " ", "n", "e", "e", "d", " ", "t", "o", " ", "b",
            "e", " ", "a", "d", "d", "r", "e", "s", "s", "e", "d", ".">>)
    @@ (ResultsDefault[5].snippet :>
            <<"T", "h", "e", " ", "f", "u", "t", "u", "r", "e", " ", "l", "o", "o", "k",
            "s", " ", "b", "r", "i", "g", "h", "t", " ", "w", "i", "t", "h", " ", "c", "o",
            "n", "t", "i", "n", "u", "e", "d", " ", "i", "n", "n", "o", "v", "a", "t", "i",
            "o", "n", " ", "e", "x", "p", "e", "c", "t", "e", "d", ".", " ", "R", "e", "s",
            "e", "a", "r", "c", "h", "e", "r", "s", " ", "a", "n", "d", " ", "p", "r", "a",
            "c", "t", "i", "t", "i", "o", "n", "e", "r", "s", " ", "a", "r", "e", " ", "o",
            "p", "t", "i", "m", "i", "s", "t", "i", "c", " ", "a", "b", "o", "u", "t", " ",
            "u", "p", "c", "o", "m", "i", "n", "g", " ", "b", "r", "e", "a", "k", "t", "h",
            "r", "o", "u", "g", "h", "s", " ", "a", "n", "d", " ", "w", "i", "d", "e", "r",
            " ", "a", "d", "o", "p", "t", "i", "o", "n", ".">>)

\* the snippets of the live backend's results: "Live snippet " and the digit of
\* the result
LiveSnippetText ==
    LET DigitOf == <<"1", "2", "3", "4", "5", "6", "7", "8", "9">> IN
    [s \in {LiveRaw(i).body : i \in 1..Len(DigitOf)} |->
        LET i == CHOOSE k \in 1..Len(DigitOf) : LiveRaw(k).body = s
        IN  <<"L", "i", "v", "e", " ", "s", "n", "i", "p", "p", "e", "t", " ">>
                \o <<DigitOf[i], ".">>]

-----------------------------------------------------------------------------
(* tools/text_processor.py: TextProcessor *)

LowerLetters ==
    {"a", "b", "c", "d", "e", "f", "g", "h", "i", "j", "k", "l", "m", "n", "o", "p", "q",
     "r", "s", "t", "u", "v", "w", "x", "y", "z"}

\* the characters the class \w of a regular expression matches
WordChars ==
    LowerLetters \cup DOMAIN UpperToLower
        \cup {"0", "1", "2", "3", "4", "5", "6", "7", "8", "9", "_"}

\* sorted(items, key, reverse=True) and list.sort(key, reverse=True): the sort
\* is stable, items of equal key keep their order.  key[k] is the key of
\* items[k].
SortDescStable(items, key) ==
    LET n == Len(items)
        keyOf == SubSeq(key, 1, n)
        pos == SubSeq([k \in 1..n |->
                          1 + Cardinality({j \in 1..n : keyOf[j] > keyOf[k]})
                            + Cardinality({j \in 1..(k - 1) : keyOf[j] = keyOf[k]})],
                      1, n)
    IN  [r \in 1..n |-> items[CHOOSE k \in 1..n : pos[k] = r]]

\* re.findall(r'\b[a-z]{4,}\b', s), line 95: the runs of four or more
\* lower-case letters that have a word boundary on both sides, left to right.
\* starts are the positions where \b[a-z] can match, a lower-case letter at the
\* start of s or after a character that is not a word character; RunEnd(i) is
\* the last position of the maximal run of lower-case letters that starts at i.
FindWords(s) ==
    LET starts ==
            {i \in 1..Len(s) : s[i] \in LowerLetters /\ (i = 1 \/ s[i - 1] \notin WordChars)}
        RunEnd(i) ==
            CHOOSE e \in i..Len(s) :
                /\ e = Len(s) \/ s[e + 1] \notin LowerLetters
                /\ \A k \in i..e : s[k] \in LowerLetters
        wordAt == [i \in 1..Len(s) |->
                      IF i \in starts
                      THEN LET e == RunEnd(i) IN
                           IF e - i + 1 >= 4 /\ (e = Len(s) \/ s[e + 1] \notin WordChars)
                           THEN SubSeq(s, i, e)
                           ELSE <<>>
                      ELSE <<>>]
    IN  NonEmptyOnes(wordAt)

\* lines 98-100
stop_words ==
    {<<"t", "h", "a", "t">>, <<"t", "h", "i", "s">>, <<"w", "i", "t", "h">>, <<"f", "r", "o", "m">>,
     <<"h", "a", "v", "e">>, <<"b", "e", "e", "n">>, <<"w", "i", "l", "l">>, <<"t", "h", "e", "i", "r">>,
     <<"t", "h", "e", "r", "e">>, <<"w", "h", "a", "t">>, <<"w", "h", "e", "n">>, <<"w", "h", "e", "r", "e">>,
     <<"w", "h", "i", "c", "h">>, <<"w", "h", "i", "l", "e">>, <<"w", "h", "o">>, <<"w", "o", "u", "l", "d">>,
     <<"c", "o", "u", "l", "d">>, <<"s", "h", "o", "u", "l", "d">>}

\* the keys of a dict filled from the sequence of words ws, in insertion order
FirstOccurrences(ws) ==
    NonEmptyOnes([i \in 1..Len(ws) |->
                     IF \A j \in 1..(i - 1) : ws[j] # ws[i] THEN ws[i] ELSE <<>>])

\* extract_keywords without the stop-word test of line 105
extract_keywords_KeepStopWords(text, top_n) ==
    LET words == FindWords(Lower(text))
        keys == FirstOccurrences(words)
        word_freq == [k \in 1..Len(keys) |->
                         Cardinality({i \in 1..Len(words) : words[i] = keys[k]})]
        sorted_words == SortDescStable(keys, word_freq)
    IN  Take(sorted_words, top_n)

\* extract_keywords(text, top_n), lines 83-110
extract_keywords(text, top_n) ==
    LET words == FindWords(Lower(text))
        NotStop(w) == w \notin stop_words
        counted == SelectSeq(words, NotStop)
        keys == FirstOccurrences(counted)
        word_freq == [k \in 1..Len(keys) |->
                         Cardinality({i \in 1..Len(counted) : counted[i] = keys[k]})]
        sorted_words == SortDescStable(keys, word_freq)
    IN  Take(sorted_words, top_n)

Terminators == {".", "!", "?"}

\* re.split(r'[.!?]+', text), line 20: the pieces between the runs of
\* terminators, left to right, with an empty piece before a leading run and
\* after a trailing one; the empty text gives one empty piece.  starts are the
\* positions where a piece starts and PieceEnd(i) is the last position of the
\* piece that starts at i.
SplitSentences(text) ==
    LET starts ==
            {i \in 1..Len(text) :
                text[i] \notin Terminators /\ (i = 1 \/ text[i - 1] \in Terminators)}
        PieceEnd(i) ==
            CHOOSE e \in i..Len(text) :
                /\ e = Len(text) \/ text[e + 1] \in Terminators
                /\ \A k \in i..e : text[k] \notin Terminators
        pieces == NonEmptyOnes([i \in 1..Len(text) |->
                                   IF i \in starts THEN SubSeq(text, i, PieceEnd(i))
                                   ELSE <<>>])
    IN  IF text = <<>> THEN << <<>> >>
        ELSE (IF text[1] \in Terminators THEN << <<>> >> ELSE <<>>)
             \o pieces
             \o (IF text[Len(text)] \in Terminators THEN << <<>> >> ELSE <<>>)

\* extract_key_points without the length test of line 21
extract_key_points_NoLengthTest(text, max_points) ==
    LET pieces == SplitSentences(text)
        sentences == [k \in 1..Len(pieces) |-> Strip(pieces[k])]
        n == Len(sentences)
        cand == Take(sentences, max_points * 2)
        score == [k \in 1..Len(cand) |->
                     300 * (n - (k - 1)) + 2 * n * Min(Len(cand[k]), 100)]
        scored_sentences == SortDescStable(cand, score)
    IN  Take(scored_sentences, max_points)

\* extract_key_points(text, max_points), lines 8-36.  The score of line 30 is
\* position_score * 0.6 + length_score * 0.4; it is held here multiplied by
\* 500 * len(sentences), which keeps it an integer and keeps the order.
extract_key_points(text, max_points) ==
    LET pieces == SplitSentences(text)
        Long(s) == Len(Strip(s)) > 20
        kept == SelectSeq(pieces, Long)
        sentences == [k \in 1..Len(kept) |-> Strip(kept[k])]
        n == Len(sentences)
        cand == Take(sentences, max_points * 2)
        score == [k \in 1..Len(cand) |->
                     300 * (n - (k - 1)) + 2 * n * Min(Len(cand[k]), 100)]
        scored_sentences == SortDescStable(cand, score)
    IN  Take(scored_sentences, max_points)

NoTp == [made |-> FALSE, fn |-> "", text |-> <<>>, n |-> 0, out |-> <<>>]

-----------------------------------------------------------------------------
(* agents/analyzer_agent.py: AnalyzerAgent *)

\* the snippets that are neither in the offline table nor the live backend's
OtherSnippetText ==
    ("first" :>
            <<"f", "i", "r", "s", "t">>)
    @@ ("second" :>
            <<"s", "e", "c", "o", "n", "d">>)
    @@ ("third" :>
            <<"t", "h", "i", "r", "d">>)
    @@ ("fourth" :>
            <<"f", "o", "u", "r", "t", "h">>)
    @@ ("No description available" :>
            <<"N", "o", " ", "d", "e", "s", "c", "r", "i", "p", "t", "i", "o", "n", " ",
            "a", "v", "a", "i", "l", "a", "b", "l", "e">>)
    @@ ("Deep learning models need large labelled datasets. Short one. Training is costly" :>
            <<"D", "e", "e", "p", " ", "l", "e", "a", "r", "n", "i", "n", "g", " ", "m",
            "o", "d", "e", "l", "s", " ", "n", "e", "e", "d", " ", "l", "a", "r", "g", "e",
            " ", "l", "a", "b", "e", "l", "l", "e", "d", " ", "d", "a", "t", "a", "s", "e",
            "t", "s", ".", " ", "S", "h", "o", "r", "t", " ", "o", "n", "e", ".", " ", "T",
            "r", "a", "i", "n", "i", "n", "g", " ", "i", "s", " ", "c", "o", "s", "t", "l",
            "y">>)
    @@ ("no period here" :>
            <<"n", "o", " ", "p", "e", "r", "i", "o", "d", " ", "h", "e", "r", "e">>)
    @@ ("" :> <<>>) @@ ("." :> <<".">>)

\* result['snippet'] as the analysis reads it
SnippetText(snippet) ==
    IF snippet \in DOMAIN DemoSnippetText THEN DemoSnippetText[snippet]
    ELSE IF snippet \in DOMAIN LiveSnippetText THEN LiveSnippetText[snippet]
    ELSE OtherSnippetText[snippet]

\* sep.join(parts)
RECURSIVE Join(_, _)
Join(parts, sep) ==
    IF parts = <<>> THEN <<>>
    ELSE IF Len(parts) = 1 THEN parts[1]
    ELSE parts[1] \o sep \o Join(Tail(parts), sep)

\* s.replace(sub, ''): the occurrences of sub are removed, left to right
RECURSIVE RemoveAll(_, _)
RemoveAll(s, sub) ==
    IF Len(s) < Len(sub) THEN s
    ELSE IF SubSeq(s, 1, Len(sub)) = sub THEN RemoveAll(SubSeq(s, Len(sub) + 1, Len(s)), sub)
    ELSE <<Head(s)>> \o RemoveAll(Tail(s), sub)

\* "OVERVIEW:"
HdrOverview ==
    <<"O", "V", "E", "R", "V", "I", "E", "W", ":">>
\* "KEY_FINDINGS:"
HdrKeyFindings ==
    <<"K", "E", "Y", "_", "F", "I", "N", "D", "I", "N", "G", "S", ":">>
\* "IMPLICATIONS:"
HdrImplications ==
    <<"I", "M", "P", "L", "I", "C", "A", "T", "I", "O", "N", "S", ":">>

\* the one character U+2022 that starts a key finding (line 100)
Bullet == "bullet"

NoInsights == [overview |-> <<>>, key_findings |-> <<>>, implications |-> <<>>]

\* lines 85-92: the first sentence of each of the first three snippets
DemoOverview(results) ==
    LET top == Take(results, 3)
        overview_parts ==
            [k \in 1..Len(top) |->
                SplitOn(SnippetText(top[k].snippet), ".", <<>>)[1] \o <<".">>]
    IN  Join(overview_parts, <<" ">>)

\* lines 95-102: one bullet for each of the first four snippets that has a long
\* sentence.  LongSentences is line 98: the sentences of a snippet that are
\* longer than 30 characters.
DemoKeyFindings(results) ==
    LET LongSentences(snippet) ==
            LET pieces == SplitOn(SnippetText(snippet), ".", <<>>)
                Long(s) == Len(Strip(s)) > 30
                kept == SelectSeq(pieces, Long)
            IN  [k \in 1..Len(kept) |-> Strip(kept[k]) \o <<".">>]
        HasSentence(r) == LongSentences(r.snippet) # <<>>
        found == SelectSeq(Take(results, 4), HasSentence)
        key_findings ==
            [k \in 1..Len(found) |-> <<Bullet, " ">> \o LongSentences(found[k].snippet)[1]]
    IN  Join(key_findings, <<"\n">>)

\* lines 105-107
DemoImplications(t) ==
        \* "The research on "
        <<"T", "h", "e", " ", "r", "e", "s", "e", "a", "r", "c", "h", " ", "o", "n", " ">>
    \o t
    \o
        \* " shows significant developments and practical applications. "
        <<" ", "s", "h", "o", "w", "s", " ", "s", "i", "g", "n", "i", "f", "i", "c", "a",
        "n", "t", " ", "d", "e", "v", "e", "l", "o", "p", "m", "e", "n", "t", "s", " ",
        "a", "n", "d", " ", "p", "r", "a", "c", "t", "i", "c", "a", "l", " ", "a", "p",
        "p", "l", "i", "c", "a", "t", "i", "o", "n", "s", ".", " ">>
    \o
        \* "Organizations are increasingly adopting these technologies to improve efficiency and outcomes. "
        <<"O", "r", "g", "a", "n", "i", "z", "a", "t", "i", "o", "n", "s", " ", "a", "r",
        "e", " ", "i", "n", "c", "r", "e", "a", "s", "i", "n", "g", "l", "y", " ", "a",
        "d", "o", "p", "t", "i", "n", "g", " ", "t", "h", "e", "s", "e", " ", "t", "e",
        "c", "h", "n", "o", "l", "o", "g", "i", "e", "s", " ", "t", "o", " ", "i", "m",
        "p", "r", "o", "v", "e", " ", "e", "f", "f", "i", "c", "i", "e", "n", "c", "y",
        " ", "a", "n", "d", " ", "o", "u", "t", "c", "o", "m", "e", "s", ".", " ">>
    \o
        \* "Continued innovation in this field is expected to drive further advancements."
        <<"C", "o", "n", "t", "i", "n", "u", "e", "d", " ", "i", "n", "n", "o", "v", "a",
        "t", "i", "o", "n", " ", "i", "n", " ", "t", "h", "i", "s", " ", "f", "i", "e",
        "l", "d", " ", "i", "s", " ", "e", "x", "p", "e", "c", "t", "e", "d", " ", "t",
        "o", " ", "d", "r", "i", "v", "e", " ", "f", "u", "r", "t", "h", "e", "r", " ",
        "a", "d", "v", "a", "n", "c", "e", "m", "e", "n", "t", "s", ".">>

\* lines 109-113 without the fallback texts: the overview and the key findings
\* are returned as computed
DemoInsights_NoFallback(t, results) ==
    [overview |-> DemoOverview(results),
     key_findings |-> DemoKeyFindings(results),
     implications |-> DemoImplications(t)]

\* lines 80-113: the Insights of the deterministic mode
DemoInsights(t, results) ==
    LET overview == DemoOverview(results)
        key_findings_text == DemoKeyFindings(results)
    IN  [overview |->
            IF overview # <<>> THEN overview
            ELSE
            \* "Research on "
            <<"R", "e", "s", "e", "a", "r", "c", "h", " ", "o", "n", " ">>
                 \o t \o
            \* " reveals multiple important aspects and developments."
            <<" ", "r", "e", "v", "e", "a", "l", "s", " ", "m", "u", "l", "t", "i", "p",
            "l", "e", " ", "i", "m", "p", "o", "r", "t", "a", "n", "t", " ", "a", "s", "p",
            "e", "c", "t", "s", " ", "a", "n", "d", " ", "d", "e", "v", "e", "l", "o", "p",
            "m", "e", "n", "t", "s", ".">>,
         key_findings |->
            IF key_findings_text # <<>> THEN key_findings_text
            ELSE
            \* "Various perspectives and applications identified in the research."
            <<"V", "a", "r", "i", "o", "u", "s", " ", "p", "e", "r", "s", "p", "e", "c",
            "t", "i", "v", "e", "s", " ", "a", "n", "d", " ", "a", "p", "p", "l", "i", "c",
            "a", "t", "i", "o", "n", "s", " ", "i", "d", "e", "n", "t", "i", "f", "i", "e",
            "d", " ", "i", "n", " ", "t", "h", "e", " ", "r", "e", "s", "e", "a", "r", "c",
            "h", ".">>,
         implications |-> DemoImplications(t)]

\* lines 179-181
GenericInsights(t) ==
    [overview |->
        \* "Analysis of "
        <<"A", "n", "a", "l", "y", "s", "i", "s", " ", "o", "f", " ">>
        \o t \o
        \* " based on gathered sources."
        <<" ", "b", "a", "s", "e", "d", " ", "o", "n", " ", "g", "a", "t", "h", "e", "r",
        "e", "d", " ", "s", "o", "u", "r", "c", "e", "s", ".">>,
     key_findings |->
        \* "Multiple perspectives found in research."
        <<"M", "u", "l", "t", "i", "p", "l", "e", " ", "p", "e", "r", "s", "p", "e", "c",
        "t", "i", "v", "e", "s", " ", "f", "o", "u", "n", "d", " ", "i", "n", " ", "r",
        "e", "s", "e", "a", "r", "c", "h", ".">>,
     implications |->
        \* "Further research recommended."
        <<"F", "u", "r", "t", "h", "e", "r", " ", "r", "e", "s", "e", "a", "r", "c", "h",
        " ", "r", "e", "c", "o", "m", "m", "e", "n", "d", "e", "d", ".">>]

\* lines 160-171: the loop over the lines of the completion
RECURSIVE ParseLines(_, _, _)
ParseLines(lines, insights, current_section) ==
    IF lines = <<>> THEN insights
    ELSE LET line == Head(lines) IN
         IF Contains(line, HdrOverview)
         THEN ParseLines(Tail(lines),
                         [insights EXCEPT !.overview = Strip(RemoveAll(line, HdrOverview))],
                         "overview")
         ELSE IF Contains(line, HdrKeyFindings)
         THEN ParseLines(Tail(lines),
                         [insights EXCEPT !.key_findings = Strip(RemoveAll(line, HdrKeyFindings))],
                         "key_findings")
         ELSE IF Contains(line, HdrImplications)
         THEN ParseLines(Tail(lines),
                         [insights EXCEPT !.implications = Strip(RemoveAll(line, HdrImplications))],
                         "implications")
         ELSE IF current_section # "" /\ Strip(line) # <<>>
         THEN ParseLines(Tail(lines),
                         [insights EXCEPT ![current_section] = @ \o <<"\n">> \o Strip(line)],
                         current_section)
         ELSE ParseLines(Tail(lines), insights, current_section)

\* lines 148-173: the Insights read off a completion
ParseInsights(text) ==
    ParseLines(SplitOn(Strip(text), "\n", <<>>), NoInsights, "")

\* completions of the analysis prompt
\* "OVERVIEW: ov\nKEY_FINDINGS: - a\n - b\n\nIMPLICATIONS: im\n"
InsightsFull ==
    <<"O", "V", "E", "R", "V", "I", "E", "W", ":", " ", "o", "v", "\n",
    "K", "E", "Y", "_", "F", "I", "N", "D", "I", "N", "G", "S", ":", " ", "-", " ", "a",
    "\n", " ", "-", " ", "b", "\n", "\n", "I", "M", "P", "L", "I", "C", "A", "T", "I", "O",
    "N", "S", ":", " ", "i", "m", "\n">>
\* "Sorry, nothing found."
InsightsNoHeaders ==
    <<"S", "o", "r", "r", "y", ",", " ", "n", "o", "t", "h", "i", "n",
    "g", " ", "f", "o", "u", "n", "d", ".">>

\* the completions of the model: with every header, without the last header,
\* with a header that has nothing after it, without any header, and empty
InsightCompletions ==
    {InsightsFull,
        \* "OVERVIEW: ov\nKEY_FINDINGS: - a"
        <<"O", "V", "E", "R", "V", "I", "E", "W", ":", " ", "o", "v",
        "\n", "K", "E", "Y", "_", "F", "I", "N", "D", "I", "N", "G", "S", ":", " ", "-", " ",
        "a">>,
        \* "OVERVIEW:\nKEY_FINDINGS: - a\nIMPLICATIONS: im"
        <<"O", "V", "E", "R", "V", "I", "E", "W", ":", "\n", "K", "E",
        "Y", "_", "F", "I", "N", "D", "I", "N", "G", "S", ":", " ", "-", " ", "a", "\n", "I",
        "M", "P", "L", "I", "C", "A", "T", "I", "O", "N", "S", ":", " ", "i", "m">>,
     InsightsNoHeaders,
     <<>>}

\* what the model does over the invocations of one call: it raises on the
\* first `fails` invocations and returns `text` on the next
ModelRuns(texts) ==
    {[fails |-> k, text |-> c] : k \in 0..(RecursionLimit - 1), c \in texts}
        \cup {[fails |-> RecursionLimit, text |-> <<>>]}

\* the log calls of one call of _synthesize_insights number at most this
MaxSynthLogs == 2 * RecursionLimit

RecursionError == "RecursionError"

SynReturn(ins, calls, logs) ==
    [kind |-> "return", insights |-> ins, err |-> "", model_calls |-> calls, logs |-> logs]
SynRaise(err, calls, logs) ==
    [kind |-> "raise", insights |-> NoInsights, err |-> err, model_calls |-> calls,
     logs |-> logs]

\* _synthesize_insights(topic, content, results) (lines 68-182), entered at
\* call depth `depth` after nlogs log calls.  The inputs: the model call raises
\* on the first llm.fails invocations and returns the completion llm.text on
\* the next; the log call number badLog raises (none when badLog = 0).  The
\* interpreter refuses the frame at depth RecursionLimit.  content only feeds
\* the prompt.  demo is DemoInsights(topic, results), what lines 80-113 build,
\* and parsed is ParseInsights(llm.text), what lines 137-173 build: both are
\* the same at every depth, the recursive call of line 178 passing the same
\* arguments on.  The value: what the call returns or raises, and the model
\* and log calls made.
RECURSIVE synthesize_insights(_, _, _, _, _, _, _)
synthesize_insights(t, demo, llm, parsed, badLog, nlogs, depth) ==
    IF depth >= RecursionLimit THEN SynRaise(RecursionError, depth, nlogs)
    ELSE IF badLog = nlogs + 1 THEN SynRaise(LogError, depth, nlogs + 1)
    ELSE IF demo_mode THEN SynReturn(demo, depth, nlogs + 1)
    ELSE IF depth >= llm.fails THEN SynReturn(parsed, depth + 1, nlogs + 1)
    ELSE IF badLog = nlogs + 2 THEN SynRaise(LogError, depth + 1, nlogs + 2)
    ELSE IF ~demo_mode
         THEN synthesize_insights(t, demo, llm, parsed, badLog, nlogs + 2, depth + 1)
         ELSE SynReturn(GenericInsights(t), depth + 1, nlogs + 2)

NoSyn ==
    [made |-> FALSE, topic |-> <<>>, results |-> <<>>, llm |-> [fails |-> 0, text |-> <<>>],
     badLog |-> 0, result |-> SynReturn(NoInsights, 0, 0)]

NoAnalysis ==
    [made |-> FALSE, topic |-> <<>>, keywords |-> <<>>, key_points |-> <<>>,
     insights |-> NoInsights, sources |-> <<>>]

AnReturn(keywords, key_points, insights, sd) ==
    [kind |-> "return", err |-> "",
     value |-> [made |-> TRUE, topic |-> sd.topic, keywords |-> keywords,
                key_points |-> key_points, insights |-> insights, sources |-> sd.results]]
AnRaise(err) ==
    [kind |-> "raise", err |-> err, value |-> NoAnalysis]

\* lines 40-53: what analyze_sources computes with the TextProcessor: the
\* keywords of the snippets joined, and the key points of the first five
\* snippets, two at most from each
TextAnalysis(results) ==
    LET all_text == Join([k \in 1..Len(results) |-> SnippetText(results[k].snippet)],
                         <<" ">>)
        top == Take(results, 5)
        points == [k \in 1..Len(top) |->
                      extract_key_points(SnippetText(top[k].snippet), 2)]
    IN  [keywords |-> extract_keywords(all_text, 10), key_points |-> Join(points, <<>>)]

\* analyze_sources(search_data) (lines 27-66) on the model's behaviour llm and
\* with the log call number badLog raising (none when badLog = 0): the
\* analysis it returns or the error it raises.  ta is TextAnalysis of the
\* results; demo and parsed are those of _synthesize_insights.
analyze_sources(sd, ta, demo, llm, parsed, badLog) ==
    IF badLog = 1 \/ badLog = 2 THEN AnRaise(LogError)
    ELSE LET s == synthesize_insights(sd.topic, demo, llm, parsed, badLog, 2, 0) IN
         IF s.kind = "raise" THEN AnRaise(s.err)
         ELSE IF badLog = s.logs + 1 THEN AnRaise(LogError)
         ELSE AnReturn(ta.keywords, ta.key_points, s.insights, sd)

-----------------------------------------------------------------------------
(* main.py: AIResearchAssistant.research and main *)

ReportError == "ReportError"

\* the path the report collaborator hands back
ReportPath == "data/reports/report.md"

NoThrow == [made |-> FALSE, stage |-> "", err |-> ""]

\* lines 57-69 run the stages in this order, Searching straight to Reporting
NextState_SkipAnalysis(s) ==
    CASE s = "Idle" -> "Searching"
      [] s = "Searching" -> "Reporting"
      [] s = "Analyzing" -> "Reporting"
      [] s = "Reporting" -> "Done"
      [] OTHER -> s

\* lines 52-79: the state that follows s when the stage of s returns
NextState(s) ==
    CASE s = "Idle" -> "Searching"
      [] s = "Searching" -> "Analyzing"
      [] s = "Analyzing" -> "Reporting"
      [] s = "Reporting" -> "Done"
      [] OTHER -> s

\* the except clause with its raise left out: research returns None
research_except_Swallow(e) ==
    /\ state' = "Done"
    /\ error' = ""
    /\ report_path' = ""

\* lines 81-85: the error of a stage is printed and raised again to the caller
research_except(e) ==
    /\ state' = "Failed"
    /\ error' = e
    /\ report_path' = ""

\* A stage raises e: nothing of research's try block after it runs.
StageRaises(stage, e) ==
    /\ thrown' = [made |-> TRUE, stage |-> stage, err |-> e]
    /\ research_except(e)
    /\ gpc' = "none"

\* research(t) is called (lines 40-57): the run starts with search_and_gather.
ResearchBegin(t) ==
    /\ state \in {"Idle", "Done", "Failed"}
    /\ spc = "idle"
    /\ run < MaxRuns
    /\ run' = run + 1
    /\ state' = NextState("Idle")
    /\ topic' = t
    /\ stages' = <<"search">>
    /\ thrown' = NoThrow
    /\ gpc' = "start"
    /\ queries' = <<>>
    /\ qi' = 1
    /\ all_results' = <<>>
    /\ searchCalls' = 0
    /\ plan' = NoPlan
    /\ search_data' = NoSearchData
    /\ analysis_data' = NoAnalysis
    /\ report_path' = ""
    /\ error' = ""
    /\ UNCHANGED <<configVars, toolVars, ncalls, analyzerVars>>

\* "quit", "exit", "q"
QuitWords ==
    {<<"q", "u", "i", "t">>, <<"e", "x", "i", "t">>, <<"q">>}

\* " machine learning "
InputML ==
    <<" ">> \o KeyML \o <<" ">>
\* "  "
InputBlank == <<" ", " ">>
\* "Q"
InputQuit == <<"Q">>

RawInputs == {InputML, InputBlank, InputQuit}

\* One turn of main's loop (lines 96-108): the line read is stripped; a quit
\* word ends the loop and an empty topic is refused, neither touching the
\* assistant; any other topic is researched.
MainPrompt ==
    \E raw \in RawInputs :
        LET t == Strip(raw) IN
        IF Lower(t) \in QuitWords \/ t = <<>>
        THEN /\ state \in {"Idle", "Done", "Failed"}
             /\ spc = "idle"
             /\ UNCHANGED vars
        ELSE ResearchBegin(t)

\* research(t) called by any other caller of the class
ApiResearch ==
    \E t \in Topics : ResearchBegin(t)

\* search_and_gather, line 128: the first log call
GatherStart ==
    /\ state = "Searching" /\ gpc = "start"
    /\ \E logOk \in BOOLEAN :
         IF logOk
         THEN /\ gpc' = "plan"
              /\ UNCHANGED <<state, error, report_path, thrown>>
         ELSE StageRaises("search", LogError)
    /\ UNCHANGED <<configVars, toolVars, ncalls, plannerVars, analyzerVars, queries, qi, all_results,
                   searchCalls, topic, search_data, analysis_data, run, stages>>

\* line 131: the queries are planned
GatherPlan ==
    /\ state = "Searching" /\ gpc = "plan"
    /\ PlanCall(topic, DefaultNumQueries)
    /\ IF plan'.result.kind = "return"
       THEN /\ queries' = plan'.result.queries
            /\ gpc' = "search"
            /\ UNCHANGED <<state, error, report_path, thrown>>
       ELSE /\ StageRaises("search", plan'.result.err)
            /\ UNCHANGED queries
    /\ UNCHANGED <<configVars, toolVars, ncalls, analyzerVars, qi, all_results, searchCalls, topic,
                   search_data, analysis_data, run, stages>>

\* line 136: search is called with the next query
GatherSearch ==
    /\ state = "Searching" /\ gpc = "search"
    /\ qi <= Len(queries)
    /\ SearchEnter(queries[qi])
    /\ gpc' = "collect"
    /\ searchCalls' = searchCalls + 1
    /\ UNCHANGED <<configVars, ncalls, plannerVars, analyzerVars, queries, qi, all_results, pipeVars>>

\* the retry loop of the search call in progress
GatherAttempt ==
    /\ state = "Searching" /\ gpc = "collect"
    /\ SearchAttempt
    /\ UNCHANGED <<configVars, ncalls, plannerVars, analyzerVars, gatherVars, pipeVars>>

\* GatherCollect that puts the call's results in front of the merged list
GatherCollect_Prepend ==
    /\ state = "Searching" /\ gpc = "collect"
    /\ spc = "idle"
    /\ all_results' = last.results \o all_results
    /\ qi' = qi + 1
    /\ gpc' = "search"
    /\ UNCHANGED <<configVars, toolVars, ncalls, plannerVars, analyzerVars, queries, searchCalls, pipeVars>>

\* line 137: the call has returned and its results are appended
GatherCollect ==
    /\ state = "Searching" /\ gpc = "collect"
    /\ spc = "idle"
    /\ all_results' = all_results \o last.results
    /\ qi' = qi + 1
    /\ gpc' = "search"
    /\ UNCHANGED <<configVars, toolVars, ncalls, plannerVars, analyzerVars, queries, searchCalls, pipeVars>>

\* lines 139-155: the merged list is deduplicated, the last log call is made
\* and search_and_gather returns; research goes on to the analysis.
GatherFinish ==
    /\ state = "Searching" /\ gpc = "search"
    /\ qi > Len(queries)
    /\ \E logOk \in BOOLEAN :
         IF logOk
         THEN /\ search_data' = SearchData(topic, queries, Dedup(all_results))
              /\ state' = NextState(state)
              /\ stages' = Append(stages, "analyze")
              /\ gpc' = "none"
              /\ UNCHANGED <<error, report_path, thrown>>
         ELSE /\ StageRaises("search", LogError)
              /\ UNCHANGED <<search_data, stages>>
    /\ UNCHANGED <<configVars, toolVars, ncalls, plannerVars, analyzerVars, queries, qi, all_results,
                   searchCalls, topic, analysis_data, run>>

\* the completions the model gives the analysis of a run
RunCompletions == {InsightsFull, InsightsNoHeaders}

\* the log calls of one call of analyze_sources number at most this: three of
\* its own and those of _synthesize_insights, one in deterministic mode
MaxAnalyzeLogs == 3 + (IF demo_mode THEN 1 ELSE MaxSynthLogs)

\* the behaviours of the model an analysis can meet: in deterministic mode
\* there is no client and no model is consulted
AnalysisRuns ==
    IF demo_mode THEN {[fails |-> 0, text |-> <<>>]} ELSE ModelRuns(RunCompletions)

\* what analyze_sources(search_data) can do with the model behaving as llm:
\* one outcome for each log call that can raise, and one for none raising
RunOutcomes(ta, demo, llm, parsed) ==
    {analyze_sources(search_data, ta, demo, llm, parsed, badLog) :
        badLog \in 0..MaxAnalyzeLogs}

\* lines 151-173 on each completion of a run, and on the empty text of the
\* runs where no model returns
RunParses ==
    {[text |-> c, parsed |-> ParseInsights(c)] : c \in RunCompletions \cup {<<>>}}

\* what analyze_sources(search_data) can do; ta is TextAnalysis of the results
\* and demo DemoInsights of the topic and the results
AnalysisOutcomes(ta, demo) ==
    UNION {RunOutcomes(ta, demo, llm, (CHOOSE p \in RunParses : p.text = llm.text).parsed) :
              llm \in AnalysisRuns}

\* analyze_sources has returned or raised
AnalyzeOutcome(ta, demo) ==
    \E r \in AnalysisOutcomes(ta, demo) :
        IF r.kind = "return"
        THEN /\ analysis_data' = r.value
             /\ state' = NextState(state)
             /\ stages' = Append(stages, "report")
             /\ UNCHANGED <<error, report_path, thrown, gpc>>
        ELSE /\ StageRaises("analyze", r.err)
             /\ UNCHANGED <<analysis_data, stages>>

\* line 63: analyze_sources(search_data) returns the analysis or raises
Analyze ==
    /\ state = "Analyzing"
    /\ AnalyzeOutcome(TextAnalysis(search_data.results),
                      DemoInsights(search_data.topic, search_data.results))
    /\ UNCHANGED <<configVars, toolVars, ncalls, plannerVars, analyzerVars, queries, qi, all_results,
                   searchCalls, topic, search_data, run>>

\* lines 69-79: the report collaborator returns a path, which research returns,
\* or raises
Report ==
    /\ state = "Reporting"
    /\ \/ /\ report_path' = ReportPath
          /\ state' = NextState(state)
          /\ UNCHANGED <<error, thrown, gpc>>
       \/ StageRaises("report", ReportError)
    /\ UNCHANGED <<configVars, toolVars, ncalls, plannerVars, analyzerVars, queries, qi, all_results,
                   searchCalls, topic, search_data, analysis_data, run, stages>>

-----------------------------------------------------------------------------
(* The provider under direct calls *)

\* no planner call, no search_and_gather and no research run under way
AgentsIdle ==
    /\ plan = NoPlan
    /\ gpc = "none"
    /\ queries = <<>>
    /\ qi = 1
    /\ all_results = <<>>
    /\ searchCalls = 0
    /\ state = "Idle"
    /\ topic = <<>>
    /\ search_data = NoSearchData
    /\ analysis_data = NoAnalysis
    /\ report_path = ""
    /\ error = ""
    /\ run = 0
    /\ stages = <<>>
    /\ thrown = NoThrow
    /\ syn = NoSyn
    /\ tp = NoTp

\* "Quantum Computing"
QueryQuantumCaps ==
    <<"Q", "u", "a", "n", "t", "u", "m", " ", "C", "o", "m", "p", "u", "t", "i", "n", "g">>
\* "solar power"
QuerySolar ==
    <<"s", "o", "l", "a", "r", " ", "p", "o", "w", "e", "r">>

\* the queries of the direct calls: the five keys of the offline table, a key
\* in capitals, a query no key matches and the empty query
Queries ==
    {KeyAIHealthcare, KeyAI, KeyML, KeyClimate, KeyQuantum, QueryQuantumCaps, QuerySolar, <<>>}

InitSearch ==
    /\ DEMO_MODE \in BOOLEAN
    /\ USE_FALLBACK_ON_ERROR \in BOOLEAN
    /\ NUM_SEARCH_QUERIES = 3
    /\ max_results \in 0..MaxResultsCfg
    /\ use_demo = DEMO_MODE
    /\ spc = "idle"
    /\ attempt = 0
    /\ last = NoCall
    /\ exhausted = FALSE
    /\ ncalls = 0
    /\ seen = {}
    /\ AgentsIdle

\* a caller invokes search(query)
DirectSearch ==
    /\ ncalls < MaxCalls
    /\ \E query \in Queries : SearchEnter(query)
    /\ ncalls' = ncalls + 1
    /\ UNCHANGED <<configVars, plannerVars, analyzerVars, gatherVars, pipeVars>>

DirectAttempt ==
    /\ SearchAttempt
    /\ UNCHANGED <<configVars, ncalls, plannerVars, analyzerVars, gatherVars, pipeVars>>

NextSearch ==
    \/ DirectSearch
    \/ DirectAttempt

SpecSearch == InitSearch /\ [][NextSearch]_vars

-----------------------------------------------------------------------------
(* The query planner under direct calls *)

InitQueries ==
    /\ DEMO_MODE \in BOOLEAN
    /\ USE_FALLBACK_ON_ERROR = TRUE
    /\ NUM_SEARCH_QUERIES = 3
    /\ max_results = 0
    /\ use_demo = DEMO_MODE
    /\ spc = "idle"
    /\ attempt = 0
    /\ last = NoCall
    /\ exhausted = FALSE
    /\ ncalls = 0
    /\ seen = {}
    /\ AgentsIdle

\* a caller invokes generate_search_queries(topic, num_queries)
DirectPlan ==
    /\ \E t \in Topics \cup {KeyClimate}, num_queries \in 0..MaxCount :
         PlanCall(t, num_queries)
    /\ UNCHANGED <<configVars, toolVars, ncalls, analyzerVars, gatherVars, pipeVars>>

NextQueries == DirectPlan

SpecQueries == InitQueries /\ [][NextQueries]_vars

-----------------------------------------------------------------------------
(* The deduplication of search_and_gather on merged lists of every shape *)

DedupEntries ==
    { [title |-> "A", url |-> "https://example.com/1", snippet |-> "first"],
      [title |-> "B", url |-> "https://example.com/1", snippet |-> "second"],
      [title |-> "C", url |-> "https://example.com/2", snippet |-> "third"],
      [title |-> "D", url |-> "", snippet |-> "fourth"] }

DedupInputs == UNION {[1..n -> DedupEntries] : n \in 0..MaxDedupLen}

\* search_and_gather in live mode has searched its one query and holds the
\* merged list
InitDedup ==
    /\ DEMO_MODE = FALSE
    /\ USE_FALLBACK_ON_ERROR = TRUE
    /\ NUM_SEARCH_QUERIES = 3
    /\ max_results = MaxDedupLen
    /\ use_demo = FALSE
    /\ spc = "idle"
    /\ attempt = 0
    /\ last = NoCall
    /\ exhausted = FALSE
    /\ ncalls = 0
    /\ seen = {}
    /\ syn = NoSyn
    /\ tp = NoTp
    /\ plan = NoPlan
    /\ gpc = "search"
    /\ queries = <<TopicX>>
    /\ qi = 2
    /\ all_results \in DedupInputs
    /\ searchCalls = 1
    /\ state = "Searching"
    /\ topic = TopicX
    /\ search_data = NoSearchData
    /\ analysis_data = NoAnalysis
    /\ report_path = ""
    /\ error = ""
    /\ run = 1
    /\ stages = <<"search">>
    /\ thrown = NoThrow

NextDedup == GatherFinish

SpecDedup == InitDedup /\ [][NextDedup]_vars

-----------------------------------------------------------------------------
(* The TextProcessor under direct calls *)

\* the pieces the texts given to extract_keywords are made of: words of four
\* letters and more, stop words in either case, a short word, a word before a
\* hyphen, a digit and an underscore
KeywordPieces ==
    {
        \* "data "
        <<"d", "a", "t", "a", " ">>,
        \* "deep"
        <<"d", "e", "e", "p">>,
        \* "That "
        <<"T", "h", "a", "t", " ">>,
        \* "cat "
        <<"c", "a", "t", " ">>,
        \* "WHICH,"
        <<"W", "H", "I", "C", "H", ",">>,
        \* "learning-"
        <<"l", "e", "a", "r", "n", "i", "n", "g", "-">>,
        \* "2"
        <<"2">>,
        \* "_"
        <<"_">>}

\* the pieces the texts given to extract_key_points are made of: fragments of
\* 21, 20 and more than 100 characters, a fragment of 20 characters inside
\* whitespace, a short fragment between terminators, terminators and a space
KeyPointPieces ==
    {
        \* "the model learns fast"
        <<"t", "h", "e", " ", "m", "o", "d", "e", "l", " ", "l", "e", "a", "r", "n", "s",
        " ", "f", "a", "s", "t">>,
        \* "the model learns now"
        <<"t", "h", "e", " ", "m", "o", "d", "e", "l", " ", "l", "e", "a", "r", "n", "s",
        " ", "n", "o", "w">>,
        \* "  the model learns now \n"
        <<" ", " ", "t", "h", "e", " ", "m", "o", "d", "e", "l", " ", "l", "e", "a", "r",
        "n", "s", " ", "n", "o", "w", " ", "\n">>,
        \* "a much longer sentence about how the model is trained on data and then evaluated on held out examples"
        <<"a", " ", "m", "u", "c", "h", " ", "l", "o", "n", "g", "e", "r", " ", "s", "e",
        "n", "t", "e", "n", "c", "e", " ", "a", "b", "o", "u", "t", " ", "h", "o", "w",
        " ", "t", "h", "e", " ", "m", "o", "d", "e", "l", " ", "i", "s", " ", "t", "r",
        "a", "i", "n", "e", "d", " ", "o", "n", " ", "d", "a", "t", "a", " ", "a", "n",
        "d", " ", "t", "h", "e", "n", " ", "e", "v", "a", "l", "u", "a", "t", "e", "d",
        " ", "o", "n", " ", "h", "e", "l", "d", " ", "o", "u", "t", " ", "e", "x", "a",
        "m", "p", "l", "e", "s">>,
        \* ". ok. "
        <<".", " ", "o", "k", ".", " ">>,
        \* "."
        <<".">>,
        \* "!?"
        <<"!", "?">>,
        \* " "
        <<" ">>}

TextsOf(pieces) ==
    {Join(ps, <<>>) : ps \in UNION {[1..n -> pieces] : n \in 0..MaxTextPieces}}

InitText ==
    /\ DEMO_MODE = TRUE
    /\ USE_FALLBACK_ON_ERROR = TRUE
    /\ NUM_SEARCH_QUERIES = 3
    /\ max_results = 0
    /\ use_demo = DEMO_MODE
    /\ spc = "idle"
    /\ attempt = 0
    /\ last = NoCall
    /\ exhausted = FALSE
    /\ ncalls = 0
    /\ seen = {}
    /\ AgentsIdle

\* a caller invokes extract_keywords(text, top_n)
CallExtractKeywords ==
    /\ ~tp.made
    /\ \E text \in TextsOf(KeywordPieces), top_n \in 0..MaxTopN :
         tp' = [made |-> TRUE, fn |-> "extract_keywords", text |-> text, n |-> top_n,
                out |-> extract_keywords(text, top_n)]
    /\ UNCHANGED <<configVars, toolVars, ncalls, plannerVars, syn, gatherVars, pipeVars>>

\* a caller invokes extract_key_points(text, max_points)
CallExtractKeyPoints ==
    /\ ~tp.made
    /\ \E text \in TextsOf(KeyPointPieces), max_points \in 0..MaxTopN :
         tp' = [made |-> TRUE, fn |-> "extract_key_points", text |-> text, n |-> max_points,
                out |-> extract_key_points(text, max_points)]
    /\ UNCHANGED <<configVars, toolVars, ncalls, plannerVars, syn, gatherVars, pipeVars>>

NextText ==
    \/ CallExtractKeywords
    \/ CallExtractKeyPoints

SpecText == InitText /\ [][NextText]_vars

-----------------------------------------------------------------------------
(* _synthesize_insights under direct calls *)

SynthTopics == {TopicX, <<>>}

\* the lists of results given to _synthesize_insights: up to MaxSynthLen
\* results whose snippet is empty, a lone period, without a period, of two
\* long sentences and a short one, or a snippet of the offline table; and the
\* five default results
SynthResultLists ==
    LET snippets ==
            {"", ".", "no period here",
             "Deep learning models need large labelled datasets. Short one. Training is costly",
             ResultsML[1].snippet}
        results ==
            {[title |-> "T", url |-> "https://example.com/t", snippet |-> s] : s \in snippets}
    IN  UNION {[1..n -> results] : n \in 0..MaxSynthLen} \cup {ResultsDefault}

InitInsights ==
    /\ DEMO_MODE \in BOOLEAN
    /\ USE_FALLBACK_ON_ERROR = TRUE
    /\ NUM_SEARCH_QUERIES = 3
    /\ max_results = 0
    /\ use_demo = DEMO_MODE
    /\ spc = "idle"
    /\ attempt = 0
    /\ last = NoCall
    /\ exhausted = FALSE
    /\ ncalls = 0
    /\ seen = {}
    /\ AgentsIdle

\* a caller invokes _synthesize_insights(topic, content, results)
DirectSynthesize ==
    /\ ~syn.made
    /\ \E t \in SynthTopics, results \in SynthResultLists,
          llm \in ModelRuns(InsightCompletions), badLog \in 0..MaxSynthLogs :
         syn' = [made |-> TRUE, topic |-> t, results |-> results, llm |-> llm,
                 badLog |-> badLog,
                 result |-> synthesize_insights(t, DemoInsights(t, results), llm,
                                                ParseInsights(llm.text), badLog, 0, 0)]
    /\ UNCHANGED <<configVars, toolVars, ncalls, plannerVars, tp, gatherVars, pipeVars>>

NextInsights == DirectSynthesize

SpecInsights == InitInsights /\ [][NextInsights]_vars

-----------------------------------------------------------------------------
(* The research pipeline *)

InitPipeline ==
    /\ DEMO_MODE \in BOOLEAN
    /\ USE_FALLBACK_ON_ERROR \in BOOLEAN
    /\ NUM_SEARCH_QUERIES = 3
    /\ max_results \in 0..MaxResultsCfg
    /\ use_demo = DEMO_MODE
    /\ spc = "idle"
    /\ attempt = 0
    /\ last = NoCall
    /\ exhausted = FALSE
    /\ ncalls = 0
    /\ seen = {}
    /\ AgentsIdle

NextPipeline ==
    \/ MainPrompt
    \/ ApiResearch
    \/ GatherStart
    \/ GatherPlan
    \/ GatherSearch
    \/ GatherAttempt
    \/ GatherCollect
    \/ GatherFinish
    \/ Analyze
    \/ Report

SpecPipeline == InitPipeline /\ [][NextPipeline]_vars

-----------------------------------------------------------------------------
(* The pipeline under each configured number of queries per topic *)

\* Config.NUM_SEARCH_QUERIES (config.py line 50) is set to 0 up to the default
\* count of generate_search_queries before the assistant is constructed
InitConfigured ==
    /\ DEMO_MODE \in BOOLEAN
    /\ USE_FALLBACK_ON_ERROR = TRUE
    /\ NUM_SEARCH_QUERIES \in 0..DefaultNumQueries
    /\ max_results = 1
    /\ use_demo = DEMO_MODE
    /\ spc = "idle"
    /\ attempt = 0
    /\ last = NoCall
    /\ exhausted = FALSE
    /\ ncalls = 0
    /\ seen = {}
    /\ AgentsIdle

SpecConfigured == InitConfigured /\ [][NextPipeline]_vars

-----------------------------------------------------------------------------
(* Claims about the provider *)

\* C1: with fallback-on-error enabled, a live call whose 3 attempts were all
\* rate-limited leaves the mode flag offline and returns the offline results
\* for its query; every call made after such a call returns the offline
\* results for its own query without any backend attempt.
C1_FallbackSwitchesOffline ==
    /\ (last.returned /\ ~last.started_demo /\ last.tried = AllRatelimited
            /\ USE_FALLBACK_ON_ERROR)
        => /\ use_demo
           /\ last.results = get_demo_results(last.query, max_results)
    /\ (exhausted /\ USE_FALLBACK_ON_ERROR) => use_demo
    /\ (last.made /\ last.after_exhausted /\ USE_FALLBACK_ON_ERROR)
        => /\ last.returned
           /\ last.tried = <<>>
           /\ spc = "idle"
           /\ last.results = get_demo_results(last.query, max_results)

\* a call made after a rate-limit fallback has returned offline results
C1_Witness ==
    /\ ~DEMO_MODE /\ USE_FALLBACK_ON_ERROR
    /\ last.made /\ last.after_exhausted /\ last.returned
    /\ last.results # <<>>

\* C2: the mode flag is one-way: no step takes use_demo from offline (TRUE)
\* back to live (FALSE).
C2_ModeFlagOneWay == [][use_demo => use_demo']_vars

\* a provider constructed live is offline, and a call has been made since
C2_Witness ==
    /\ ~DEMO_MODE /\ use_demo
    /\ last.made /\ last.started_demo /\ last.returned

\* C3: with fallback-on-error disabled, a live call whose 3 attempts were all
\* rate-limited returns the empty list and leaves the provider live: the next
\* call starts in live mode.
C3_ExhaustedWithoutFallback ==
    /\ (last.returned /\ ~last.started_demo /\ last.tried = AllRatelimited
            /\ ~USE_FALLBACK_ON_ERROR)
        => /\ last.results = <<>>
           /\ ~use_demo
    /\ (last.made /\ last.after_exhausted /\ ~DEMO_MODE /\ ~USE_FALLBACK_ON_ERROR)
        => ~last.started_demo

\* a call made after an exhausted call with fallback disabled started live and
\* was itself exhausted
C3_Witness ==
    /\ ~DEMO_MODE /\ ~USE_FALLBACK_ON_ERROR
    /\ last.made /\ last.after_exhausted /\ ~last.started_demo
    /\ last.returned /\ last.tried = AllRatelimited /\ last.results = <<>>

C21_BoundedBackoff ==
    /\ Len(last.tried) <= 3
    /\ \A i \in 1..Len(last.tried) - 1 : last.tried[i] = "ratelimit"
    /\ Len(last.waits) = (IF spc = "attempt" THEN Len(last.tried)
                          ELSE IF last.tried = <<>> THEN 0
                          ELSE Len(last.tried) - 1)
    /\ Len(last.waits) <= 2
    /\ \A i \in 1..Len(last.waits) : last.waits[i] = (IF i = 1 THEN 2 ELSE 4)
    /\ \A i \in 1..Len(last.tried) :
         last.tried[i] = "ok"
            => /\ i = Len(last.tried)
               /\ last.returned
               /\ spc = "idle"
    /\ (spc = "attempt") => (attempt = Len(last.tried) /\ attempt < 3 /\ ~last.returned)

\* a call that succeeded on its third attempt, after sleeping 2 s and 4 s
C21_Witness ==
    /\ last.returned
    /\ last.tried = <<"ratelimit", "ratelimit", "ok">>
    /\ last.waits = <<2, 4>>
    /\ last.results # <<>>

\* C5: every returned call holds at most max_results results (and none when
\* max_results = 0), offline and live.
C5_AtMostMaxResults ==
    last.returned => Len(last.results) <= max_results

-----------------------------------------------------------------------------
C25_ExactKeyNotShadowed ==
    \A p \in seen :
        (p[1] \in Range(DemoKeys) \ {KeyDefault})
            => p[2] = Take(DEMO_SEARCH_RESULTS[p[1]], max_results)

(* Claims about the query planner *)

\* C10: a call of generate_search_queries(topic, count) that returns, returns
\* at most count queries, in offline mode, on a successful model call and on a
\* failed one.
C10_AtMostCountQueries ==
    (plan.made /\ plan.result.kind = "return")
        => Len(plan.result.queries) <= plan.count

\* C11: a call of generate_search_queries on a non-empty topic never raises
\* and returns a non-empty list, for every count and every behaviour of the
\* model (failure, empty completion, completion of blank lines only).
C11_NeverRaisesNonEmpty ==
    (plan.made /\ plan.topic # <<>>)
        => /\ plan.result.kind = "return"
           /\ plan.result.queries # <<>>

\* C12: in offline mode a call generate_search_queries(X, n) makes no model
\* call, and the list it returns is the first n elements of
\* [X, "X latest developments", "X practical applications"], in that order:
\* all three when n >= 3.
C12_OfflineTemplate ==
    (plan.made /\ DEMO_MODE) =>
        /\ plan.result.model_calls = 0
        /\ plan.result.kind = "return" =>
              LET out == plan.result.queries
                  X == plan.topic
              IN  /\ Len(out) = (IF plan.count >= 3 THEN 3 ELSE plan.count)
                  /\ Len(out) >= 1 => out[1] = X
                  /\ Len(out) >= 2 =>
                        out[2] = X \o <<" ", "l", "a", "t", "e", "s", "t", " ", "d", "e", "v",
                                        "e", "l", "o", "p", "m", "e", "n", "t", "s">>
                  /\ Len(out) >= 3 =>
                        out[3] = X \o <<" ", "p", "r", "a", "c", "t", "i", "c", "a", "l", " ",
                                        "a", "p", "p", "l", "i", "c", "a", "t", "i", "o", "n",
                                        "s">>

\* an offline call with count 2 on "climate change" has returned two queries,
\* and one with count 4 on "x" has returned three
C12_Witness ==
    /\ plan.made /\ DEMO_MODE /\ plan.result.kind = "return"
    /\ \/ plan.topic = KeyClimate /\ plan.count = 2 /\ Len(plan.result.queries) = 2
       \/ plan.topic = TopicX /\ plan.count = 4 /\ Len(plan.result.queries) = 3

-----------------------------------------------------------------------------
(* Claims about _synthesize_insights *)

\* C13: with a model, a call of _synthesize_insights whose model call fails
\* (on some invocations or on all of them) returns, and what it returns is the
\* Insights of the deterministic mode for the same topic and results.
C13_FailureFallsBackToDeterministic ==
    (syn.made /\ ~DEMO_MODE /\ syn.llm.fails >= 1 /\ syn.badLog = 0)
        => /\ syn.result.kind = "return"
           /\ syn.result.insights = DemoInsights(syn.topic, syn.results)

\* C14: with a model, the Insights a call of _synthesize_insights returns has
\* a non-empty overview, non-empty key_findings and non-empty implications,
\* whatever the completion.
C14_ParsedInsightsNonEmpty ==
    (syn.made /\ ~DEMO_MODE /\ syn.result.kind = "return")
        => /\ syn.result.insights.overview # <<>>
           /\ syn.result.insights.key_findings # <<>>
           /\ syn.result.insights.implications # <<>>

\* C15: in deterministic mode none of overview, key_findings, implications of
\* the Insights a call of _synthesize_insights returns is the empty string, for
\* every topic and every results list, the empty list and results with an empty
\* snippet included.
C15_DemoInsightsNonEmpty ==
    (syn.made /\ DEMO_MODE /\ syn.result.kind = "return")
        => /\ syn.result.insights.overview # <<>>
           /\ syn.result.insights.key_findings # <<>>
           /\ syn.result.insights.implications # <<>>

\* a deterministic-mode call on the empty results list and the empty topic has
\* returned
C15_Witness ==
    /\ syn.made /\ DEMO_MODE /\ syn.result.kind = "return"
    /\ syn.results = <<>>
    /\ syn.topic = <<>>

-----------------------------------------------------------------------------
(* Claims about search_and_gather *)

Urls(results) == {results[i].url : i \in 1..Len(results)}

\* the index of the first entry of results that carries url u
FirstIndex(results, u) ==
    CHOOSE i \in 1..Len(results) :
        /\ results[i].url = u
        /\ \A j \in 1..(i - 1) : results[j].url # u

\* C6: the list search_and_gather returns under 'results' holds no url twice,
\* holds for each url of the merged list exactly the first entry that carried
\* it, keeps these entries in the order of their first occurrences, and is as
\* long as the merged list has distinct urls.
C6_DedupFirstOccurrence ==
    search_data.made =>
        LET out == search_data.results IN
        /\ \A i, j \in 1..Len(out) : i # j => out[i].url # out[j].url
        /\ \A u \in Urls(all_results) :
               \E i \in 1..Len(out) : out[i] = all_results[FirstIndex(all_results, u)]
        /\ Urls(out) = Urls(all_results)
        /\ \A i, j \in 1..Len(out) :
               i < j => FirstIndex(all_results, out[i].url) < FirstIndex(all_results, out[j].url)
        /\ Len(out) = Cardinality(Urls(all_results))
        /\ search_data.total_sources = Len(out)

\* a merged list with a repeated url, whose later entry differs from the first,
\* has been deduplicated to two or more entries
C6_Witness ==
    /\ search_data.made
    /\ Len(search_data.results) >= 2
    /\ \E i, j \in 1..Len(all_results) :
           /\ i < j
           /\ all_results[i].url = all_results[j].url
           /\ all_results[i] # all_results[j]

-----------------------------------------------------------------------------
(* Claims about the TextProcessor *)

\* C19: extract_keywords(text, top_n) with top_n >= 0 returns at most top_n
\* items, each of four characters or more and none of them a stop word.
C19_KeywordsBounded ==
    (tp.made /\ tp.fn = "extract_keywords") =>
        /\ Len(tp.out) <= tp.n
        /\ \A i \in 1..Len(tp.out) : Len(tp.out[i]) >= 4 /\ tp.out[i] \notin stop_words

\* the text held a stop word and more other words of four letters than top_n,
\* and top_n of them were returned
C19_Witness ==
    /\ tp.made /\ tp.fn = "extract_keywords"
    /\ tp.n >= 1 /\ Len(tp.out) = tp.n
    /\ LET words == Range(FindWords(Lower(tp.text))) IN
       /\ words \cap stop_words # {}
       /\ Cardinality(words \ stop_words) > tp.n

\* C20: extract_key_points(text, max_points) with max_points >= 0 returns at
\* most max_points items, none of them shorter than 20 characters, and the
\* empty list on the empty text.
C20_KeyPointsBounded ==
    (tp.made /\ tp.fn = "extract_key_points") =>
        /\ Len(tp.out) <= tp.n
        /\ \A i \in 1..Len(tp.out) : Len(tp.out[i]) >= 20
        /\ (tp.text = <<>> => tp.out = <<>>)

\* the text held a fragment of fewer than 20 characters and more longer ones
\* than max_points, and max_points of them were returned
C20_Witness ==
    /\ tp.made /\ tp.fn = "extract_key_points"
    /\ tp.n >= 1 /\ Len(tp.out) = tp.n
    /\ LET pieces == SplitSentences(tp.text) IN
       /\ \E k \in 1..Len(pieces) : Len(Strip(pieces[k])) \in 1..19
       /\ Cardinality({k \in 1..Len(pieces) : Len(Strip(pieces[k])) > 20}) > tp.n

-----------------------------------------------------------------------------
(* Claims about the pipeline *)

\* C7: when a stage of research raises, the run is Failed, the error raised to
\* the caller is the stage's error, the raising stage is the last one invoked,
\* no later stage has produced anything and no report path is returned.
C7_StageErrorFailsRun ==
    thrown.made =>
        /\ state = "Failed"
        /\ error = thrown.err
        /\ report_path = ""
        /\ stages # <<>> /\ stages[Len(stages)] = thrown.stage
        /\ (thrown.stage = "search" => ~search_data.made /\ ~analysis_data.made)
        /\ (thrown.stage = "analyze" => ~analysis_data.made)

\* the analysis raised after search-and-gather had returned
C7_Witness ==
    /\ thrown.made /\ thrown.stage = "analyze"
    /\ search_data.made
    /\ state = "Failed"

StateEdges ==
    { <<"Searching", "Analyzing">>, <<"Analyzing", "Reporting">>, <<"Reporting", "Done">>,
      <<"Searching", "Failed">>, <<"Analyzing", "Failed">>, <<"Reporting", "Failed">> }

\* C8: within a run the state only moves along Idle, Searching, Analyzing,
\* Reporting, Done, one step at a time, or from an in-progress state to
\* Failed; Done and Failed are left only by the start of the next run; the
\* analysis runs on what search-and-gather returned, the report on what the
\* analysis returned, and Done holds a report path.
C8_StateOrder ==
    /\ [][IF run' = run
          THEN state' = state \/ <<state, state'>> \in StateEdges
          ELSE /\ state \in {"Idle", "Done", "Failed"}
               /\ state' = "Searching"
               /\ run' = run + 1]_vars
    /\ [](state = "Idle" => run = 0)
    /\ [](state = "Analyzing" =>
            search_data.made /\ gpc = "none" /\ spc = "idle" /\ stages = <<"search", "analyze">>)
    /\ [](state = "Reporting" =>
            analysis_data.made /\ stages = <<"search", "analyze", "report">>)
    /\ [](state = "Done" =>
            report_path = ReportPath /\ stages = <<"search", "analyze", "report">>)

\* a second run has gone through all the stages to Done
C8_Witness ==
    /\ run = 2
    /\ state = "Done"
    /\ analysis_data.made /\ report_path = ReportPath

\* C9: in a run of research on the empty topic neither the query planner nor
\* the search provider is invoked.
C9_EmptyTopicNotSearched ==
    (run > 0 /\ topic = <<>>) => (~plan.made /\ searchCalls = 0)

\* C16: a log call that raises never fails the pipeline: no run of research
\* ends in Failed with the error the log sink raised, the search-and-gather,
\* planning and analysis stages completing all the same.
C16_LogFailureNeverFails ==
    ~(state = "Failed" /\ thrown.made /\ thrown.err = LogError)

\* C18: a run of research in offline mode on a non-empty topic never fails in
\* its search or analysis stage, and the analysis it produces has sources with
\* pairwise distinct urls, at most q * m of them for the q queries planned and
\* max_results = m, and at most 10 keywords.
C18_OfflineRunReachesDone ==
    (DEMO_MODE /\ run > 0 /\ topic # <<>>) =>
        /\ ~(state = "Failed" /\ thrown.made /\ thrown.stage \in {"search", "analyze"})
        /\ analysis_data.made =>
             LET sources == analysis_data.sources IN
             /\ \A i, j \in 1..Len(sources) : i # j => sources[i].url # sources[j].url
             /\ Len(sources) <= DefaultNumQueries * max_results
             /\ Len(analysis_data.keywords) <= 10


C23_SearchedInPlanOrder ==
    /\ []((state = "Searching" /\ gpc \in {"search", "collect"})
            => /\ qi \in 1..Len(queries) + 1
               /\ searchCalls = (IF gpc = "collect" THEN qi ELSE qi - 1)
               /\ gpc = "search" => spc = "idle"
               /\ gpc = "collect" => (last.made /\ last.query = queries[qi]))
    /\ [](state \in {"Analyzing", "Reporting", "Done"}
            => /\ searchCalls = Len(queries)
               /\ search_data.queries = queries)
    /\ [][searchCalls' # searchCalls
            => \/ gpc' = "start" /\ searchCalls' = 0
               \/ /\ gpc = "search" /\ spc = "idle"
                  /\ searchCalls' = searchCalls + 1
                  /\ last'.made /\ last'.query = queries[searchCalls']
                  /\ last'.tried = <<>>]_vars
    /\ [][(qi' # qi \/ all_results' # all_results)
            => \/ gpc' = "start" /\ qi' = 1 /\ all_results' = <<>>
               \/ /\ gpc = "collect" /\ spc = "idle"
                  /\ last.returned /\ last.query = queries[qi]
                  /\ all_results' = all_results \o last.results
                  /\ qi' = qi + 1]_vars
    /\ [][queries' # queries => (gpc = "plan" \/ gpc' = "start")]_vars

\* the loop of a run has ended after three calls, and the merged list holds
\* the results of more than one of them
C23_Witness ==
    /\ state = "Searching" /\ gpc = "search"
    /\ Len(queries) = 3 /\ qi = 4 /\ searchCalls = 3
    /\ Len(all_results) > max_results
    /\ all_results[1] # all_results[Len(all_results)]


\* C26: one run of search_and_gather issues at most Config.NUM_SEARCH_QUERIES
\* search calls, whatever value n >= 0 is configured.
C26_AtMostConfiguredQueries ==
    searchCalls <= NUM_SEARCH_QUERIES

=============================================================================
